---------------------------- MODULE Spec2Model ----------------------------
(***************************************************************************)
(* OMF object-file parser of dostools (dt_lib/src/objfile.rs) and the      *)
(* record cursor of dt_lib/src/record.rs.                                  *)
(*                                                                         *)
(* Buffers are sequences of bytes.  Rust indexes from 0, TLA+ sequences    *)
(* from 1: obj[i] of the source is obj[i+1] here and the slice obj[a..b]   *)
(* is slice(obj, a, b).  Option<T> is the empty sequence (None) or the     *)
(* one-element sequence <<x>> (Some(x)).  A Result is a record             *)
(* [ok, val, self]: the value or the error, and the parser after the call  *)
(* (the methods take &mut self).                                           *)
(***************************************************************************)
EXTENDS Integers, Sequences, FiniteSets, TLC

VARIABLES
    obj,      \* Parser.obj: the byte buffer
    start,    \* Parser.start
    ptr,      \* Parser.ptr
    next,     \* Parser.next
    result,   \* what the last call of Parser::next returned
    hdr,      \* offset at which the last call of Parser::next began reading
    rec,      \* RecordParser.rec.data
    rnext,    \* RecordParser.next
    rresult,  \* what the last RecordParser read returned
    input,    \* the value handed to the cursor under test
    objs,     \* the object images the tool walks through, in order
    objno,    \* how many of them the tool has started on
    pc,       \* where the tool is: "idle", "loop", "next", "done", "failed"
    objdump   \* the Objdump of dump_one_object

vars == <<obj, start, ptr, next, result, hdr, rec, rnext, rresult, input,
          objs, objno, pc, objdump>>

pvars == <<obj, start, ptr, next, result, hdr>>
rvars == <<rec, rnext, rresult>>
dvars == <<objs, objno, pc, objdump>>

-----------------------------------------------------------------------------
(* Bytes and bit fields *)

Byte == 0..255

\* x & (1 << b) != 0
bit(x, b) == (x \div (2 ^ b)) % 2 = 1

\* (x >> s) & (2^w - 1)
field(x, s, w) == (x \div (2 ^ s)) % (2 ^ w)

slice(s, a, b) == SubSeq(s, a + 1, b)

RECURSIVE sum_bytes(_)
sum_bytes(s) == IF s = <<>> THEN 0 ELSE Head(s) + sum_bytes(Tail(s))

None == <<>>
Some(x) == <<x>>

Ok(v, self) == [ok |-> TRUE, val |-> v, self |-> self]
Err(e, self) == [ok |-> FALSE, val |-> e, self |-> self]

\* the ? operator: an Err leaves the enclosing function at once, an Ok goes
\* on.  The result r is bound as an element of {r}, so that it is computed
\* once however often the rest of the function reads it.
Try(r, F(_)) ==
    CHOOSE out \in {IF x.ok THEN F(x) ELSE x : x \in {r}} : TRUE

\* the ? operator on the result of a TryFrom, which carries no cursor
TryEnum(e, self, F(_)) ==
    CHOOSE out \in {IF x.ok THEN F(x.val) ELSE Err(x.val, self) : x \in {e}} : TRUE

-----------------------------------------------------------------------------
(* error.rs *)

\* Error::new: an error without offset
ObjError_new(details) ==
    [kind |-> "Err", details |-> details, offset |-> None]

\* Error::with_offset
ObjError_with_offset(details, offset) ==
    [kind |-> "Err", details |-> details, offset |-> Some(offset)]

\* Error::truncated
ObjError_truncated ==
    [kind |-> "Err", details |-> "record is truncated", offset |-> None]

-----------------------------------------------------------------------------
(* String::from_utf8: the well-formed UTF-8 byte sequences *)

cont(b) == b >= 128 /\ b <= 191

RECURSIVE utf8_valid(_)
utf8_valid(s) ==
    IF s = <<>> THEN TRUE
    ELSE LET b == s[1]
             n == Len(s)
         IN  IF b < 128 THEN utf8_valid(Tail(s))
             ELSE IF b >= 194 /\ b <= 223
                 THEN n >= 2 /\ cont(s[2]) /\ utf8_valid(SubSeq(s, 3, n))
             ELSE IF b >= 224 /\ b <= 239
                 THEN /\ n >= 3
                      /\ cont(s[2])
                      /\ (b = 224 => s[2] >= 160)
                      /\ (b = 237 => s[2] <= 159)
                      /\ cont(s[3])
                      /\ utf8_valid(SubSeq(s, 4, n))
             ELSE IF b >= 240 /\ b <= 244
                 THEN /\ n >= 4
                      /\ cont(s[2])
                      /\ (b = 240 => s[2] >= 144)
                      /\ (b = 244 => s[2] <= 143)
                      /\ cont(s[3])
                      /\ cont(s[4])
                      /\ utf8_valid(SubSeq(s, 5, n))
             ELSE FALSE

-----------------------------------------------------------------------------
(* Parser: the cursor (objfile.rs 508-605) *)

\* Parser::new
Parser_new(o) == [obj |-> o, start |-> 0, ptr |-> 0, next |-> 0]

\* Parser::err
err(self, details) == ObjError_with_offset(details, self.start)

\* Parser::endrec: record end does not include checksum byte
endrec(self) == self.next - 1

\* Parser::uint and unpack::uint: the loop shifts the bytes in from the last
\* to the first, so the first byte is the least significant
RECURSIVE uint(_)
uint(data) ==
    IF data = <<>> THEN 0 ELSE Head(data) + 256 * uint(Tail(data))

\* &self.obj[a..b] and self.obj[a]: a slice or an index outside the buffer,
\* or a slice that ends before it starts, panics
in_bounds(self, a, b) == 0 <= a /\ a <= b /\ b <= Len(self.obj)

Panic(self) == [ok |-> FALSE, val |-> [kind |-> "Panic"], self |-> self]

\* the mutant of next_uint: the bytes are taken without the test against
\* the end of the record
next_uint_unchecked(self, size) ==
    IF ~in_bounds(self, self.ptr, self.ptr + size)
    THEN Panic(self)
    ELSE Ok(uint(slice(self.obj, self.ptr, self.ptr + size)),
            [self EXCEPT !.ptr = self.ptr + size])

\* Parser::next_uint
next_uint(self, size) ==
    IF self.ptr + size > endrec(self)
    THEN Err(err(self, "next_uint: record is truncated"), self)
    ELSE IF ~in_bounds(self, self.ptr, self.ptr + size)
    THEN Panic(self)
    ELSE Ok(uint(slice(self.obj, self.ptr, self.ptr + size)),
            [self EXCEPT !.ptr = self.ptr + size])

\* the bound next_str checks the string body against
next_str_limit(self) == Len(self.obj)

\* Parser::next_str
next_str(self) ==
    IF self.ptr >= endrec(self)
    THEN Err(err(self, "next_str: no length byte"), self)
    ELSE IF ~in_bounds(self, self.ptr, self.ptr + 1)
    THEN Panic(self)
    ELSE LET len == self.obj[self.ptr + 1]
             s1 == [self EXCEPT !.ptr = self.ptr + 1]
         IN  IF s1.ptr + len > next_str_limit(s1)
             THEN Err(err(s1, "next_str: string is truncated"), s1)
             ELSE IF ~in_bounds(s1, s1.ptr, s1.ptr + len)
             THEN Panic(s1)
             ELSE LET s == slice(s1.obj, s1.ptr, s1.ptr + len)
                      s2 == [s1 EXCEPT !.ptr = s1.ptr + len]
                  IN  IF utf8_valid(s)
                      THEN Ok(s, s2)
                      ELSE Err(err(s2, "FromUtf8Error"), s2)

\* Parser::rest_str; the slice panics when ptr > endrec
rest_str(self) ==
    IF ~in_bounds(self, self.ptr, endrec(self))
    THEN Panic(self)
    ELSE LET bytes == slice(self.obj, self.ptr, endrec(self))
             s1 == [self EXCEPT !.ptr = endrec(self)]
         IN  IF utf8_valid(bytes)
             THEN Ok(bytes, s1)
             ELSE Err(err(s1, "FromUtf8Error"), s1)

\* the mutant of next_index: the high byte masked with 0x3f
next_index_mask3f(self) ==
    Try(next_uint(self, 1), LAMBDA r0 :
    IF r0.val < 128 THEN r0
    ELSE Try(next_uint(r0.self, 1), LAMBDA r1 :
         Ok((r0.val % 64) * 256 + r1.val, r1.self)))

\* Parser::next_index.  (index & 0x7f) << 8 has its low eight bits clear,
\* so or-ing a byte into it adds the byte.
next_index(self) ==
    Try(next_uint(self, 1), LAMBDA r0 :
    IF r0.val < 128 THEN r0
    ELSE Try(next_uint(r0.self, 1), LAMBDA r1 :
         Ok((r0.val % 128) * 256 + r1.val, r1.self)))

\* the mutant of next_opt_index: the index 0 is kept as Some(0)
next_opt_index_some(self) ==
    Try(next_index(self), LAMBDA r : Ok(Some(r.val), r.self))

\* Parser::next_opt_index
next_opt_index(self) ==
    Try(next_index(self), LAMBDA r :
    IF r.val = 0 THEN Ok(None, r.self) ELSE Ok(Some(r.val), r.self))

\* the mutant of checksum: no exception for a zero checksum byte
checksum_strict(bytes) == sum_bytes(bytes) % 256 = 0

\* Parser::checksum
checksum(bytes) ==
    IF bytes[Len(bytes)] = 0
    THEN TRUE
    ELSE sum_bytes(bytes) % 256 = 0

-----------------------------------------------------------------------------
(* The enum decode tables (objfile.rs 13-96, 185-225, 335-446).  They are  *)
(* free functions: their errors are made by Error::new.                     *)

\* the digits of {:x}
HexDigits ==
    <<"0", "1", "2", "3", "4", "5", "6", "7",
      "8", "9", "a", "b", "c", "d", "e", "f">>

\* format!("{:02x}", x) of a byte
hex2(x) == HexDigits[(x \div 16) + 1] \o HexDigits[(x % 16) + 1]

EnumOk(v) == [ok |-> TRUE, val |-> v]
EnumErr(details) == [ok |-> FALSE, val |-> ObjError_new(details)]

\* TryFrom<u8> for FrameMethod
FrameMethod_try_from(val) ==
    CASE val = 0 -> EnumOk("Segdef")
      [] val = 1 -> EnumOk("Grpdef")
      [] val = 2 -> EnumOk("Extdef")
      [] val = 4 -> EnumOk("PreviousDataRecord")
      [] val = 5 -> EnumOk("Target")
      [] OTHER -> EnumErr("invalid frame method $" \o hex2(val))

\* the mutant of has_datum: every frame method carries a datum
has_datum_all(method) == TRUE

\* FrameMethod::has_datum
has_datum(method) == method \in {"Segdef", "Grpdef", "Extdef"}

\* TryFrom<u8> for TargetMethod
TargetMethod_try_from(val) ==
    CASE val = 0 -> EnumOk("Segdef")
      [] val = 1 -> EnumOk("Grpdef")
      [] val = 2 -> EnumOk("Extdef")
      [] val = 4 -> EnumOk("SegdefNoDisplacement")
      [] val = 5 -> EnumOk("GrpdefNoDisplacement")
      [] val = 6 -> EnumOk("ExtdefNoDisplacement")
      [] OTHER -> EnumErr("invalid target method $" \o hex2(val))

\* TryFrom<u8> for FixupLocation
FixupLocation_try_from(val) ==
    CASE val = 0 -> EnumOk("Byte")
      [] val = 1 -> EnumOk("Word")
      [] val = 2 -> EnumOk("Selector")
      [] val = 3 -> EnumOk("LongPointer")
      [] val = 5 -> EnumOk("LoaderWord")
      [] val = 9 -> EnumOk("Offset32")
      [] val = 11 -> EnumOk("Pointer48")
      [] val = 13 -> EnumOk("LoaderOffset32")
      [] OTHER -> EnumErr("invalid fixup location $" \o hex2(val))

\* the mutant of Align_try_from: Absolute and Byte change places
Align_try_from_swapped(val) ==
    CASE val = 0 -> EnumOk("Byte")
      [] val = 1 -> EnumOk("Absolute")
      [] val = 2 -> EnumOk("Word")
      [] val = 3 -> EnumOk("Paragraph")
      [] val = 4 -> EnumOk("Page")
      [] val = 5 -> EnumOk("Dword")
      [] OTHER -> EnumErr("invalid align $" \o hex2(val))

\* TryFrom<u8> for Align
Align_try_from(val) ==
    CASE val = 0 -> EnumOk("Absolute")
      [] val = 1 -> EnumOk("Byte")
      [] val = 2 -> EnumOk("Word")
      [] val = 3 -> EnumOk("Paragraph")
      [] val = 4 -> EnumOk("Page")
      [] val = 5 -> EnumOk("Dword")
      [] OTHER -> EnumErr("invalid align $" \o hex2(val))

\* TryFrom<u8> for Combine
Combine_try_from(val) ==
    CASE val = 0 -> EnumOk("Private")
      [] val \in {2, 4, 7} -> EnumOk("Public")
      [] val = 5 -> EnumOk("Stack")
      [] val = 6 -> EnumOk("Common")
      [] OTHER -> EnumErr("invalid combine $" \o hex2(val))

\* TryFrom<u8> for BakpatLocation
BakpatLocation_try_from(val) ==
    CASE val = 0 -> EnumOk("Byte")
      [] val = 1 -> EnumOk("Word")
      [] val \in {2, 9} -> EnumOk("Dword")
      [] OTHER -> EnumErr("invalid BAKPAT location $" \o hex2(val))

\* TryFrom<u8> for ComdatSelection: match val & 0xf0
ComdatSelection_try_from(val) ==
    CASE field(val, 4, 4) = 0 -> EnumOk("NoMatch")
      [] field(val, 4, 4) = 1 -> EnumOk("PickAny")
      [] field(val, 4, 4) = 2 -> EnumOk("SameSize")
      [] field(val, 4, 4) = 3 -> EnumOk("ExactMatch")
      [] OTHER -> EnumErr("invalid comdat selection $" \o hex2(field(val, 4, 4) * 16))

\* TryFrom<u8> for ComdatAllocation: match val & 0x0f
ComdatAllocation_try_from(val) ==
    CASE field(val, 0, 4) = 0 -> EnumOk("Explicit")
      [] field(val, 0, 4) = 1 -> EnumOk("FarCode")
      [] field(val, 0, 4) = 2 -> EnumOk("FarData")
      [] field(val, 0, 4) = 3 -> EnumOk("Code32")
      [] field(val, 0, 4) = 4 -> EnumOk("Data32")
      [] OTHER -> EnumErr("invalid comdat allocation $" \o hex2(field(val, 0, 4)))

\* TryFrom<u8> for ComdatAlign: match val & 0x0f
ComdatAlign_try_from(val) ==
    CASE field(val, 0, 4) = 0 -> EnumOk("Segdef")
      [] field(val, 0, 4) = 1 -> EnumOk("Byte")
      [] field(val, 0, 4) = 2 -> EnumOk("Word")
      [] field(val, 0, 4) = 3 -> EnumOk("Paragraph")
      [] field(val, 0, 4) = 4 -> EnumOk("Page")
      [] field(val, 0, 4) = 5 -> EnumOk("Dword")
      [] OTHER -> EnumErr("invalid comdat align $" \o hex2(field(val, 0, 4)))

\* the details of the errors the enum tables make
InvalidEnumDetails ==
    {e \o hex2(v) :
        e \in {"invalid frame method $", "invalid target method $",
               "invalid fixup location $", "invalid align $",
               "invalid combine $", "invalid BAKPAT location $",
               "invalid comdat selection $", "invalid comdat allocation $",
               "invalid comdat align $"},
        v \in Byte}

-----------------------------------------------------------------------------
(* The sub-decoders (objfile.rs 607-1102) *)

\* the mutant of width: two bytes for both record types
width_16(is32) == 2

\* if is32 { 4 } else { 2 }
width(is32) == IF is32 THEN 4 ELSE 2

\* Parser::modend
modend(self, is32) ==
    Try(next_uint(self, 1), LAMBDA r0 :
    LET modtype == r0.val
        main == bit(modtype, 7)
        has_start == bit(modtype, 6)
        bytes == width(is32)
    IN
    IF ~has_start
    THEN Ok([kind |-> "MODEND", main |-> main, start_address |-> None], r0.self)
    ELSE
    Try(next_uint(r0.self, 1), LAMBDA r1 :
    LET fix_data == r1.val
        f_thread == bit(fix_data, 7)
        t_thread == bit(fix_data, 3)
        p_displ == bit(fix_data, 2)
    IN
    TryEnum(FrameMethod_try_from(field(fix_data, 4, 3)), r1.self, LAMBDA f_method :
    Try(IF f_thread \/ ~has_datum(f_method)
        THEN Ok(None, r1.self)
        ELSE next_opt_index(r1.self), LAMBDA r2 :
    Try(IF t_thread THEN Ok(None, r2.self) ELSE next_opt_index(r2.self), LAMBDA r3 :
    Try(IF ~p_displ
        THEN Try(next_uint(r3.self, bytes), LAMBDA d : Ok(Some(d.val), d.self))
        ELSE Ok(None, r3.self), LAMBDA r4 :
    Ok([kind |-> "MODEND", main |-> main,
        start_address |-> Some([fix_data |-> fix_data,
                                frame_datum |-> r2.val,
                                target_datum |-> r3.val,
                                target_disp |-> r4.val])],
       r4.self)))))))

\* Parser::lnames, the loop
RECURSIVE lnames_loop(_, _)
lnames_loop(self, names) ==
    IF self.ptr < endrec(self)
    THEN Try(next_str(self), LAMBDA r : lnames_loop(r.self, Append(names, r.val)))
    ELSE Ok([kind |-> "LNAMES", names |-> names], self)

\* Parser::lnames
lnames(self) == lnames_loop(self, <<>>)

\* A u64 of the source whose value may pass 2^31 is kept as two limbs, the
\* value being hi * 2^16 + lo with lo < 2^16.
U64(hi, lo) == [hi |-> hi, lo |-> lo]

\* length as u64, of a usize below 2^31
as_u64(v) == U64(v \div 65536, v % 65536)

\* the mutant of big_length: the 16-bit length for both record types
big_length_16(is32) == U64(1, 0)

\* Parser::segdef, line 672: 1 << if is32 { 32 } else { 16 }, usize being
\* 64 bits wide
big_length(is32) == U64(2 ^ ((IF is32 THEN 32 ELSE 16) - 16), 0)

\* Parser::segdef, the loop
RECURSIVE segdef_loop(_, _, _)
segdef_loop(self, is32, segs) ==
    IF ~(self.ptr < endrec(self))
    THEN Ok([kind |-> "SEGDEF", segs |-> segs], self)
    ELSE
    Try(next_uint(self, 1), LAMBDA r0 :
    LET bytes == width(is32)
        acbp == r0.val
        big == bit(acbp, 1)
        use32 == bit(acbp, 0)
    IN
    TryEnum(Align_try_from(field(acbp, 5, 3)), r0.self, LAMBDA align :
    TryEnum(Combine_try_from(field(acbp, 2, 3)), r0.self, LAMBDA combine :
    Try(IF align = "Absolute"
        THEN Try(next_uint(r0.self, 2), LAMBDA f :
             Try(next_uint(f.self, 1), LAMBDA o :
             Ok(Some([frame |-> f.val, offset |-> o.val]), o.self)))
        ELSE Ok(None, r0.self), LAMBDA r1 :
    Try(next_uint(r1.self, bytes), LAMBDA r2 :
    IF big /\ r2.val # 0
    THEN Err(err(r2.self, "length not zero when BIG bit it set"), r2.self)
    ELSE
    LET length == IF big THEN big_length(is32) ELSE as_u64(r2.val) IN
    Try(next_opt_index(r2.self), LAMBDA r3 :
    Try(next_opt_index(r3.self), LAMBDA r4 :
    Try(next_opt_index(r4.self), LAMBDA r5 :
    segdef_loop(r5.self, is32,
                Append(segs, [align |-> align,
                              combine |-> combine,
                              use32 |-> use32,
                              abs |-> r1.val,
                              length |-> length,
                              class |-> r3.val,
                              name |-> r4.val,
                              overlay |-> r5.val]))))))))))

\* Parser::segdef
segdef(self, is32) == segdef_loop(self, is32, <<>>)

\* Parser::grpdef, the loop
RECURSIVE grpdef_loop(_, _, _)
grpdef_loop(self, name, segs) ==
    IF ~(self.ptr < endrec(self))
    THEN Ok([kind |-> "GRPDEF", name |-> name, segs |-> segs], self)
    ELSE
    Try(next_uint(self, 1), LAMBDA r0 :
    Try(next_index(r0.self), LAMBDA r1 :
    IF r0.val # 255
    THEN Err(err(r1.self, "grpdef segment with type other than FF"), r1.self)
    ELSE grpdef_loop(r1.self, name, Append(segs, r1.val))))

\* Parser::grpdef
grpdef(self) ==
    Try(next_index(self), LAMBDA r : grpdef_loop(r.self, r.val, <<>>))

\* Parser::make_externs; kind is the record the closure builds
RECURSIVE make_externs(_, _, _)
make_externs(self, kind, externs) ==
    IF ~(self.ptr < endrec(self))
    THEN Ok([kind |-> kind, externs |-> externs], self)
    ELSE
    Try(next_str(self), LAMBDA r0 :
    Try(next_index(r0.self), LAMBDA r1 :
    make_externs(r1.self, kind,
                 Append(externs, [name |-> r0.val, typeidx |-> r1.val]))))

\* Parser::extdef
extdef(self) == make_externs(self, "EXTDEF", <<>>)

\* Parser::lextdef
lextdef(self) == make_externs(self, "LEXTDEF", <<>>)

\* Parser::alias, the loop
RECURSIVE alias_loop(_, _)
alias_loop(self, aliases) ==
    IF ~(self.ptr < endrec(self))
    THEN Ok([kind |-> "ALIAS", aliases |-> aliases], self)
    ELSE
    Try(next_str(self), LAMBDA r0 :
    Try(next_str(r0.self), LAMBDA r1 :
    alias_loop(r1.self, Append(aliases, [alias |-> r0.val, substitute |-> r1.val]))))

\* Parser::alias
alias(self) == alias_loop(self, <<>>)

\* the loop over the publics of Parser::pubdef and Parser::lpubdef
RECURSIVE publics_loop(_, _, _)
publics_loop(self, bytes, publics) ==
    IF ~(self.ptr < endrec(self))
    THEN Ok(publics, self)
    ELSE
    Try(next_str(self), LAMBDA r0 :
    Try(next_uint(r0.self, bytes), LAMBDA r1 :
    Try(next_index(r1.self), LAMBDA r2 :
    publics_loop(r2.self, bytes,
                 Append(publics, [name |-> r0.val, offset |-> r1.val,
                                  typeidx |-> r2.val])))))

\* the body Parser::pubdef and Parser::lpubdef share, text for text
pubdef_as(self, is32, kind) ==
    Try(next_opt_index(self), LAMBDA r0 :
    Try(next_opt_index(r0.self), LAMBDA r1 :
    Try(IF r0.val = None /\ r1.val = None
        THEN Try(next_uint(r1.self, 2), LAMBDA f : Ok(Some(f.val), f.self))
        ELSE Ok(None, r1.self), LAMBDA r2 :
    Try(publics_loop(r2.self, width(is32), <<>>), LAMBDA r3 :
    Ok([kind |-> kind, group |-> r0.val, seg |-> r1.val, frame |-> r2.val,
        publics |-> r3.val], r3.self)))))

\* Parser::pubdef
pubdef(self, is32) == pubdef_as(self, is32, "PUBDEF")

\* Parser::lpubdef
lpubdef(self, is32) == pubdef_as(self, is32, "LPUBDEF")

\* Parser::ledata; the slice panics when ptr > endrec
ledata(self, is32) ==
    Try(next_index(self), LAMBDA r0 :
    Try(next_uint(r0.self, width(is32)), LAMBDA r1 :
    IF ~in_bounds(r1.self, r1.self.ptr, endrec(r1.self))
    THEN Panic(r1.self)
    ELSE Ok([kind |-> "LEDATA", seg |-> r0.val, offset |-> r1.val,
             data |-> slice(r1.self.obj, r1.self.ptr, endrec(r1.self))],
            r1.self)))

\* Parser::bakpat, the loop
RECURSIVE bakpat_loop(_, _, _)
bakpat_loop(self, bytes, fixups) ==
    IF ~(self.ptr < endrec(self))
    THEN Ok(fixups, self)
    ELSE
    Try(next_uint(self, bytes), LAMBDA r0 :
    Try(next_uint(r0.self, bytes), LAMBDA r1 :
    bakpat_loop(r1.self, bytes, Append(fixups, [offset |-> r0.val, value |-> r1.val]))))

\* Parser::bakpat
bakpat(self, is32) ==
    Try(next_index(self), LAMBDA r0 :
    Try(next_uint(r0.self, 1), LAMBDA r1 :
    TryEnum(BakpatLocation_try_from(r1.val), r1.self, LAMBDA location :
    Try(bakpat_loop(r1.self, width(is32), <<>>), LAMBDA r2 :
    Ok([kind |-> "BAKPAT", seg |-> r0.val, location |-> location,
        fixups |-> r2.val], r2.self)))))

\* Parser::fixupp, a thread subrecord (lead bit 7 clear)
fixupp_thread(self, lead) ==
    LET thread == field(lead, 0, 2) IN
    IF ~bit(lead, 6)
    THEN \* target thread
         TryEnum(TargetMethod_try_from(field(lead, 2, 2)), self, LAMBDA method :
         Try(next_index(self), LAMBDA r :
         Ok([sub |-> "TargetThread", method |-> method, thread |-> thread,
             index |-> r.val], r.self)))
    ELSE \* frame thread
         TryEnum(FrameMethod_try_from(field(lead, 2, 3)), self, LAMBDA method :
         Try(IF has_datum(method)
             THEN Try(next_index(self), LAMBDA i : Ok(Some(i.val), i.self))
             ELSE Ok(None, self), LAMBDA r :
         Ok([sub |-> "FrameThread", method |-> method, thread |-> thread,
             index |-> r.val], r.self)))

\* Parser::fixupp, a fixup subrecord (lead bit 7 set)
fixupp_fixup(self, is32, lead) ==
    LET is_seg_relative == bit(lead, 6) IN
    TryEnum(FixupLocation_try_from(field(lead, 2, 4)), self, LAMBDA location :
    Try(next_uint(self, 1), LAMBDA r0 :
    LET data_offset == field(lead, 0, 2) * 256 + r0.val IN
    Try(next_uint(r0.self, 1), LAMBDA r1 :
    LET fixdata == r1.val
        frame_uses_thread == bit(fixdata, 7)
        target_uses_thread == bit(fixdata, 3)
        frame_thread == IF frame_uses_thread THEN Some(field(fixdata, 4, 2)) ELSE None
        target_thread == IF target_uses_thread THEN Some(field(fixdata, 0, 2)) ELSE None
    IN
    TryEnum(IF frame_uses_thread
            THEN EnumOk(None)
            ELSE LET m == FrameMethod_try_from(field(fixdata, 4, 3)) IN
                 IF ~m.ok THEN m ELSE EnumOk(Some(m.val)), r1.self, LAMBDA fm :
    TryEnum(IF target_uses_thread
            THEN EnumOk(None)
            ELSE LET m == TargetMethod_try_from(field(fixdata, 0, 3)) IN
                 IF ~m.ok THEN m ELSE EnumOk(Some(m.val)), r1.self, LAMBDA tm :
    Try(IF fm # None /\ has_datum(fm[1])
        THEN Try(next_index(r1.self), LAMBDA i : Ok(Some(i.val), i.self))
        ELSE Ok(None, r1.self), LAMBDA r2 :
    Try(IF tm = None
        THEN Ok(None, r2.self)
        ELSE Try(next_index(r2.self), LAMBDA i : Ok(Some(i.val), i.self)), LAMBDA r3 :
    Try(IF bit(fixdata, 2)
        THEN Ok(0, r3.self)
        ELSE next_uint(r3.self, width(is32)), LAMBDA r4 :
    Ok([sub |-> "Fixup",
        is_seg_relative |-> is_seg_relative,
        location |-> location,
        data_offset |-> data_offset,
        frame_thread |-> frame_thread,
        frame_method |-> fm,
        frame_datum |-> r2.val,
        target_thread |-> target_thread,
        target_method |-> tm,
        target_datum |-> r3.val,
        target_displacement |-> r4.val], r4.self)))))))))

\* Parser::fixupp, the loop
RECURSIVE fixupp_loop(_, _, _)
fixupp_loop(self, is32, fixups) ==
    IF ~(self.ptr < endrec(self))
    THEN Ok([kind |-> "FIXUPP", fixups |-> fixups], self)
    ELSE
    Try(next_uint(self, 1), LAMBDA r0 :
    Try(IF ~bit(r0.val, 7)
        THEN fixupp_thread(r0.self, r0.val)
        ELSE fixupp_fixup(r0.self, is32, r0.val), LAMBDA r1 :
    fixupp_loop(r1.self, is32, Append(fixups, r1.val))))

\* Parser::fixupp
fixupp(self, is32) == fixupp_loop(self, is32, <<>>)

\* the mutant of comlength: three bytes behind the lead byte 0x81
comlength_wide(self) ==
    Try(next_uint(self, 1), LAMBDA r :
    IF r.val <= 128 THEN r
    ELSE IF r.val = 129 THEN next_uint(r.self, 3)
    ELSE IF r.val = 130 THEN next_uint(r.self, 3)
    ELSE IF r.val = 131 THEN next_uint(r.self, 4)
    ELSE Err(err(r.self, "invalid encoded length lead byte " \o hex2(r.val)),
             r.self))

\* Parser::comlength
comlength(self) ==
    Try(next_uint(self, 1), LAMBDA r :
    IF r.val <= 128 THEN r
    ELSE IF r.val = 129 THEN next_uint(r.self, 2)
    ELSE IF r.val = 130 THEN next_uint(r.self, 3)
    ELSE IF r.val = 131 THEN next_uint(r.self, 4)
    ELSE Err(err(r.self, "invalid encoded length lead byte " \o hex2(r.val)),
             r.self))

\* Parser::comdef, the loop
RECURSIVE comdef_loop(_, _)
comdef_loop(self, commons) ==
    IF ~(self.ptr < endrec(self))
    THEN Ok([kind |-> "COMDEF", commons |-> commons], self)
    ELSE
    Try(next_str(self), LAMBDA r0 :
    Try(next_index(r0.self), LAMBDA r1 :
    Try(next_uint(r1.self, 1), LAMBDA r2 :
    Try(comlength(r2.self), LAMBDA r3 :
    Try(IF r2.val = 97
        THEN Try(comlength(r3.self), LAMBDA m : Ok(r3.val * m.val, m.self))
        ELSE r3, LAMBDA r4 :
    comdef_loop(r4.self,
                Append(commons, [name |-> r0.val, length |-> r4.val,
                                 datatype |-> r2.val, typeidx |-> r1.val])))))))

\* Parser::comdef
comdef(self) == comdef_loop(self, <<>>)

\* Parser::cextdef, the loop
RECURSIVE cextdef_loop(_, _)
cextdef_loop(self, externs) ==
    IF ~(self.ptr < endrec(self))
    THEN Ok([kind |-> "CEXTDEF", externs |-> externs], self)
    ELSE
    Try(next_index(self), LAMBDA r0 :
    Try(next_index(r0.self), LAMBDA r1 :
    cextdef_loop(r1.self, Append(externs, [name |-> r0.val, typeindex |-> r1.val]))))

\* Parser::cextdef
cextdef(self) == cextdef_loop(self, <<>>)

\* Parser::comdat, the loop over the data bytes
RECURSIVE comdat_data(_, _)
comdat_data(self, data) ==
    IF ~(self.ptr < endrec(self))
    THEN Ok(data, self)
    ELSE Try(next_uint(self, 1), LAMBDA r : comdat_data(r.self, Append(data, r.val)))

\* Parser::comdat
comdat(self, is32) ==
    Try(next_uint(self, 1), LAMBDA r0 :
    Try(next_uint(r0.self, 1), LAMBDA r1 :
    Try(next_uint(r1.self, 1), LAMBDA r2 :
    Try(next_uint(r2.self, width(is32)), LAMBDA r3 :
    Try(next_index(r3.self), LAMBDA r4 :
    Try(next_opt_index(r4.self), LAMBDA r5 :
    Try(next_opt_index(r5.self), LAMBDA r6 :
    Try(IF r5.val = None /\ r6.val = None
        THEN Try(next_uint(r6.self, 2), LAMBDA f : Ok(Some(f.val), f.self))
        ELSE Ok(None, r6.self), LAMBDA r7 :
    Try(next_index(r7.self), LAMBDA r8 :
    Try(comdat_data(r8.self, <<>>), LAMBDA r9 :
    TryEnum(ComdatSelection_try_from(r1.val), r9.self, LAMBDA selection :
    TryEnum(ComdatAllocation_try_from(r1.val), r9.self, LAMBDA allocation :
    TryEnum(ComdatAlign_try_from(r2.val), r9.self, LAMBDA align :
    Ok([kind |-> "COMDAT",
        flags |-> r0.val,
        selection |-> selection,
        allocation |-> allocation,
        align |-> align,
        offset |-> r3.val,
        typeindex |-> r4.val,
        base_group |-> r5.val,
        base_seg |-> r6.val,
        base_frame |-> r7.val,
        name |-> r8.val,
        data |-> r9.val], r9.self))))))))))))))

\* Record::COMENT
COMENT(header, coment) == [kind |-> "COMENT", header |-> header, coment |-> coment]

\* ComentHeader::nopurge
nopurge(header) == bit(header.comtype, 7)

\* ComentHeader::nolist
nolist(header) == bit(header.comtype, 6)

\* coment_translator, coment_new_omf, coment_memory_model,
\* coment_default_library and coment_user: the rest of the record as text
coment_rest(self, header, variant) ==
    Try(rest_str(self), LAMBDA r :
    Ok(COMENT(header, [variant |-> variant, text |-> r.val]), r.self))

\* the mutant of coment_libmod: the rest of the record as text
coment_libmod_rest(self, header) ==
    Try(rest_str(self), LAMBDA r :
    Ok(COMENT(header, [variant |-> "Libmod", text |-> r.val]), r.self))

\* Parser::coment_libmod: unlike most other coment strings, a counted string
coment_libmod(self, header) ==
    Try(next_str(self), LAMBDA r :
    Ok(COMENT(header, [variant |-> "Libmod", text |-> r.val]), r.self))

\* Parser::coment_weak_extern, the loop
RECURSIVE coment_weak_extern_loop(_, _, _)
coment_weak_extern_loop(self, header, externs) ==
    IF ~(self.ptr < endrec(self))
    THEN Ok(COMENT(header, [variant |-> "WeakExtern", externs |-> externs]), self)
    ELSE
    Try(next_index(self), LAMBDA r0 :
    Try(next_index(r0.self), LAMBDA r1 :
    coment_weak_extern_loop(r1.self, header,
                            Append(externs, [weak |-> r0.val, default |-> r1.val]))))

\* Parser::coment_weak_extern
coment_weak_extern(self, header) == coment_weak_extern_loop(self, header, <<>>)

\* Parser::coment
coment(self) ==
    Try(next_uint(self, 1), LAMBDA r0 :
    Try(next_uint(r0.self, 1), LAMBDA r1 :
    LET header == [comtype |-> r0.val, comclass |-> r1.val]
        comclass == r1.val
        s == r1.self
    IN
    CASE comclass = 0 -> coment_rest(s, header, "Translator")
      [] comclass = 157 -> coment_rest(s, header, "MemoryModel")
      [] comclass = 158 -> Ok(COMENT(header, [variant |-> "DosSeg"]), s)
      [] comclass = 159 -> coment_rest(s, header, "DefaultLibrary")
      [] comclass = 161 -> coment_rest(s, header, "NewOMF")
      [] comclass = 162 -> Ok(COMENT(header, [variant |-> "LinkPassSeparator"]), s)
      [] comclass = 163 -> coment_libmod(s, header)
      [] comclass = 168 -> coment_weak_extern(s, header)
      [] comclass = 223 -> coment_rest(s, header, "User")
      [] OTHER -> Ok(COMENT(header, [variant |-> "Unknown"]), s)))

-----------------------------------------------------------------------------
(* Dispatch and framing (objfile.rs 1104-1159) *)

\* the type bytes Parser::record has an arm for
DispatchTypes ==
    {128, 136, 138, 139, 140, 144, 145, 150, 152, 153, 154, 156, 157, 160, 161,
     176, 178, 179, 180, 181, 182, 183, 188, 194, 195, 198}

\* the arm for 0x80
theadr(self) ==
    Try(next_str(self), LAMBDA r : Ok([kind |-> "THEADR", name |-> r.val], r.self))

\* the mutant of unknown: a type byte without an arm is an error
unknown_is_error(self, rectype) ==
    Err(err(self, "unknown record type"), self)

\* the last arm, for every other type byte
unknown(self, rectype) == Ok([kind |-> "Unknown", rectype |-> rectype], self)

\* Parser::record
record(self, rectype) ==
    CASE rectype = 128 -> theadr(self)
      [] rectype = 136 -> coment(self)
      [] rectype = 138 -> modend(self, FALSE)
      [] rectype = 139 -> modend(self, TRUE)
      [] rectype = 140 -> extdef(self)
      [] rectype = 144 -> pubdef(self, FALSE)
      [] rectype = 145 -> pubdef(self, TRUE)
      [] rectype = 150 -> lnames(self)
      [] rectype = 152 -> segdef(self, FALSE)
      [] rectype = 153 -> segdef(self, TRUE)
      [] rectype = 154 -> grpdef(self)
      [] rectype = 156 -> fixupp(self, FALSE)
      [] rectype = 157 -> fixupp(self, TRUE)
      [] rectype = 160 -> ledata(self, FALSE)
      [] rectype = 161 -> ledata(self, TRUE)
      [] rectype = 176 -> comdef(self)
      [] rectype = 178 -> bakpat(self, FALSE)
      [] rectype = 179 -> bakpat(self, TRUE)
      [] rectype = 180 -> lextdef(self)
      [] rectype = 181 -> lextdef(self)
      [] rectype = 182 -> lpubdef(self, FALSE)
      [] rectype = 183 -> lpubdef(self, TRUE)
      [] rectype = 188 -> cextdef(self)
      [] rectype = 194 -> comdat(self, FALSE)
      [] rectype = 195 -> comdat(self, TRUE)
      [] rectype = 198 -> alias(self)
      [] OTHER -> unknown(self, rectype)

\* the mutant of exhausted: the end of the buffer itself is not the end
exhausted_past(self) == self.ptr > Len(self.obj)

\* Parser::next, line 1140: nothing is left to read
exhausted(self) == self.ptr >= Len(self.obj)

\* the mutant of header_short: two bytes pass for a header
header_short_2(self) == self.next - self.ptr < 2

\* Parser::next, line 1142: fewer than three bytes are left
header_short(self) == self.next - self.ptr < 3

\* Parser::next, line 1148: the body runs past the buffer
body_short(self, len) == self.ptr + len > Len(self.obj)

\* the mutant of frame_end: the checksum byte is left to the next frame
frame_end_before_checksum(self, len) == self.ptr + len - 1

\* the mutant of frame_end: the next frame starts at the header of this one
frame_end_same(self, len) == self.ptr - 3

\* Parser::next, line 1151: where the next frame starts
frame_end(self, len) == self.ptr + len

\* Parser::next, line 1152: the bytes the checksum is computed over
checksum_range(self) == slice(self.obj, self.start, self.next)

\* the mutant of Parser_next: next is moved to the end of the frame only
\* when the checksum has passed
Parser_next_late(self0) ==
    LET self == [self0 EXCEPT !.ptr = self0.next, !.next = Len(self0.obj)] IN
    IF exhausted(self)
    THEN Ok([kind |-> "None"], self)
    ELSE IF header_short(self)
    THEN Err(err(self, "record header truncated"), self)
    ELSE
    Try(next_uint(self, 1), LAMBDA typ :
    Try(next_uint(typ.self, 2), LAMBDA len :
    IF body_short(len.self, len.val)
    THEN Err(err(len.self, "record body truncated"), len.self)
    ELSE
    LET s == [len.self EXCEPT !.next = frame_end(len.self, len.val)] IN
    IF ~in_bounds(s, s.start, s.next) \/ s.start = s.next
    THEN Panic(s)
    ELSE IF ~checksum(checksum_range(s))
    THEN Err(err(len.self, "checksum failed"), len.self)
    ELSE record(s, typ.val % 256)))

\* the mutant of Parser_next: a truncated header or body moves next one
\* byte behind the place where the frame began
Parser_next_retry(self0) ==
    LET self == [self0 EXCEPT !.ptr = self0.next, !.next = Len(self0.obj)]
        back(s) == [s EXCEPT !.next = self0.next + 1]
    IN
    IF exhausted(self)
    THEN Ok([kind |-> "None"], self)
    ELSE IF header_short(self)
    THEN Err(err(self, "record header truncated"), back(self))
    ELSE
    Try(next_uint(self, 1), LAMBDA typ :
    Try(next_uint(typ.self, 2), LAMBDA len :
    IF body_short(len.self, len.val)
    THEN Err(err(len.self, "record body truncated"), back(len.self))
    ELSE
    LET s == [len.self EXCEPT !.next = frame_end(len.self, len.val)] IN
    IF ~in_bounds(s, s.start, s.next) \/ s.start = s.next
    THEN Panic(s)
    ELSE IF ~checksum(checksum_range(s))
    THEN Err(err(s, "checksum failed"), s)
    ELSE record(s, typ.val % 256)))

\* Parser::next
Parser_next(self0) ==
    LET self == [self0 EXCEPT !.ptr = self0.next, !.next = Len(self0.obj)] IN
    IF exhausted(self)
    THEN Ok([kind |-> "None"], self)
    ELSE IF header_short(self)
    THEN Err(err(self, "record header truncated"), self)
    ELSE
    Try(next_uint(self, 1), LAMBDA typ :
    Try(next_uint(typ.self, 2), LAMBDA len :
    IF body_short(len.self, len.val)
    THEN Err(err(len.self, "record body truncated"), len.self)
    ELSE
    LET s == [len.self EXCEPT !.next = frame_end(len.self, len.val)] IN
    IF ~in_bounds(s, s.start, s.next) \/ s.start = s.next
    THEN Panic(s)
    ELSE IF ~checksum(checksum_range(s))
    THEN Err(err(s, "checksum failed"), s)
    ELSE record(s, typ.val % 256)))

-----------------------------------------------------------------------------
(* RecordParser (record.rs 153-242); self is [data, next] *)

\* RecordParser::new
RecordParser_new(data) == [data |-> data, next |-> 0]

\* RecordParser::end
RecordParser_end(self) == self.next >= Len(self.data)

\* RecordParser::next_byte
RecordParser_next_byte(self) ==
    IF self.next = Len(self.data)
    THEN Err(ObjError_truncated, self)
    ELSE Ok(self.data[self.next + 1], [self EXCEPT !.next = self.next + 1])

\* RecordParser::next_str
RecordParser_next_str(self) ==
    IF self.next = Len(self.data)
    THEN Err(ObjError_truncated, self)
    ELSE LET len == self.data[self.next + 1] IN
         IF self.next + 1 + len > Len(self.data)
         THEN Err(ObjError_truncated, self)
         ELSE LET first == self.next + 1
                  last == first + len
                  s == slice(self.data, first, last)
              IN  IF ~utf8_valid(s)
                  THEN Err(ObjError_new("invalid string in record"), self)
                  ELSE Ok(s, [self EXCEPT !.next = last])

\* RecordParser::next_uint
RecordParser_next_uint(self, is32) ==
    LET bytes == width(is32) IN
    IF self.next + bytes > Len(self.data)
    THEN Err(ObjError_truncated, self)
    ELSE Ok(uint(slice(self.data, self.next, self.next + bytes)),
            [self EXCEPT !.next = self.next + bytes])

\* RecordParser::next_index
RecordParser_next_index(self) ==
    Try(RecordParser_next_byte(self), LAMBDA r0 :
    IF ~bit(r0.val, 7) THEN r0
    ELSE Try(RecordParser_next_byte(r0.self), LAMBDA r1 :
         Ok((r0.val % 128) * 256 + r1.val, r1.self)))

\* RecordParser::rest_str
RecordParser_rest_str(self) ==
    LET first == self.next
        last == Len(self.data)
    IN  IF first > last
        THEN Err(ObjError_truncated, self)
        ELSE IF ~utf8_valid(slice(self.data, first, last))
        THEN Err(ObjError_new("invalid string in record"), self)
        ELSE Ok(slice(self.data, first, last), [self EXCEPT !.next = last])

-----------------------------------------------------------------------------
(* The buffers the parser is run on *)

\* most frames in front of the frame under examination
MaxLead == 2

\* most payload bytes, the checksum byte not counted, of the frame under
\* examination
MaxBody == 2

\* the sequences over S of length at most n
SeqsUpTo(S, n) == UNION {[1..k -> S] : k \in 0..n}

RECURSIVE concat(_)
concat(ss) == IF ss = <<>> THEN <<>> ELSE Head(ss) \o concat(Tail(ss))

\* type byte and little-endian length
Header(t, n) == <<t, n % 256, n \div 256>>

\* the checksum byte that makes the bytes of a frame sum to 0 modulo 256
ChecksumFor(bytes) == (256 - (sum_bytes(bytes) % 256)) % 256

\* a frame of type t with the payload body and each of: a zero checksum
\* byte, the right one, a wrong one
FramesOf(t, body) ==
    LET h == Header(t, Len(body) + 1) \o body
        c == ChecksumFor(h)
    IN  {h \o <<x>> : x \in {0, c, (c + 1) % 256}}

\* frames in front: unknown type with a zero checksum byte, with the exact
\* checksum byte, with a wrong one, and with length 0; THEADR with an empty
\* name and a payload byte behind it, and THEADR with a name of two bytes
\* announced in a payload of one
LeadFrames ==
    {<<66, 1, 0, 0>>, <<66, 1, 0, 189>>, <<66, 1, 0, 1>>, <<66, 0, 0>>,
     <<128, 3, 0, 0, 65, 0>>, <<128, 2, 0, 2, 0>>}

\* unknown, THEADR, EXTDEF, LNAMES, SEGDEF
LastTypes == {66, 128, 140, 150, 152}

\* NUL, a count of one, the letter A, a byte that is no UTF-8 and no align
BodyBytes == {0, 1, 65, 224}

LastFrames ==
    UNION {FramesOf(t, b) : t \in LastTypes, b \in SeqsUpTo(BodyBytes, MaxBody)}
    \cup {Header(t, 0) : t \in LastTypes}

\* whole frames in front, then a frame that may be cut short
IsBuffer(b) ==
    \E lead \in SeqsUpTo(LeadFrames, MaxLead), f \in LastFrames :
        \E k \in 0..Len(f) : b = concat(lead) \o SubSeq(f, 1, k)

-----------------------------------------------------------------------------
(* The caller of the parser *)

Fresh == [kind |-> "Init"]

\* Objdump::new: index 0 of the name table is taken by the empty string
\* (segments, groups and externs start the same way and are left out: no
\* LNAMES, THEADR or MODEND arm touches them)
Objdump_new == [lnames |-> << <<>> >>]

\* no tool is running
Idle ==
    /\ objs = <<>>
    /\ objno = 0
    /\ pc = "idle"
    /\ objdump = Objdump_new

Init ==
    /\ IsBuffer(obj)
    /\ start = 0
    /\ ptr = 0
    /\ next = 0
    /\ result = Fresh
    /\ hdr = 0
    /\ rec = <<>>
    /\ rnext = 0
    /\ rresult = Fresh
    /\ input = 0
    /\ Idle

self_now == [obj |-> obj, start |-> start, ptr |-> ptr, next |-> next]

\* one call of Parser::next
ParserNext ==
    LET r == Parser_next(self_now) IN
    /\ hdr' = next
    /\ result' = r.val
    /\ start' = r.self.start
    /\ ptr' = r.self.ptr
    /\ next' = r.self.next
    /\ UNCHANGED <<obj, rvars, input, dvars>>

Next == ParserNext

Spec == Init /\ [][Next]_vars

-----------------------------------------------------------------------------
(* The index cursors on the encoding of a value *)

\* the largest value of the two-byte encoding: ((0xff & 0x7f) << 8) | 0xff
MaxIndex == 128 * 256 - 1

\* one byte v when v < 0x80, else 0x80 | (v >> 8) and v & 0xff
EncodeIndex(v) == IF v < 128 THEN <<v>> ELSE <<128 + v \div 256, v % 256>>

\* what may follow the index in the payload
IndexPads == {<<>>, <<85>>}

\* the parser inside a CEXTDEF frame, its header read, and a RecordParser
\* on the same payload
InitIndex ==
    /\ input \in 0..MaxIndex
    /\ \E pad \in IndexPads :
          /\ rec = EncodeIndex(input) \o pad
          /\ obj = Header(188, Len(rec) + 1) \o rec \o <<0>>
    /\ start = 0
    /\ ptr = 3
    /\ next = Len(obj)
    /\ result = Fresh
    /\ hdr = 0
    /\ rnext = 0
    /\ rresult = Fresh
    /\ Idle

\* Parser::next_index at the start of the payload
ParserNextIndex ==
    /\ result = Fresh
    /\ LET r == next_index(self_now) IN
       /\ result' = [kind |-> "Index", ok |-> r.ok, val |-> r.val]
       /\ ptr' = r.self.ptr
    /\ UNCHANGED <<obj, start, next, hdr, rvars, input, dvars>>

\* RecordParser::next_index at the start of the payload
RecordNextIndex ==
    /\ rresult = Fresh
    /\ LET r == RecordParser_next_index([data |-> rec, next |-> rnext]) IN
       /\ rresult' = [kind |-> "Index", ok |-> r.ok, val |-> r.val]
       /\ rnext' = r.self.next
    /\ UNCHANGED <<pvars, rec, input, dvars>>

NextIndex == ParserNextIndex \/ RecordNextIndex

SpecIndex == InitIndex /\ [][NextIndex]_vars

-----------------------------------------------------------------------------
(* What the claims speak of: the frame the last call of Parser::next read  *)
(* at offset hdr                                                           *)

Called == result # Fresh

IsErr(details) == result.kind = "Err" /\ result.details = details

\* a record came back: not None, not an error, not a panic
Decoded == result.kind \notin {"Init", "None", "Err", "Panic"}

\* the three header bytes of the frame at offset o are in the buffer
HeaderAt(o) == o + 3 <= Len(obj)

FrameType(o) == obj[o + 1]

\* the length field of the frame at offset o
FrameLen(o) == obj[o + 2] + 256 * obj[o + 3]

\* the frame at offset o is in the buffer, header and payload
FrameAt(o) == HeaderAt(o) /\ o + 3 + FrameLen(o) <= Len(obj)

\* type byte, length bytes and payload of the frame at offset o
FrameBytes(o) == slice(obj, o, o + 3 + FrameLen(o))

\* the checksum byte of the frame at offset o, the last payload byte
ChecksumByte(o) == obj[o + 3 + FrameLen(o)]

\* the checksum rule on the bytes of the frame itself
OwnSumZero(o) == sum_bytes(FrameBytes(o)) % 256 = 0

TruncatedDetails ==
    {"next_uint: record is truncated", "next_str: no length byte",
     "next_str: string is truncated"}

FrameLayerDetails ==
    {"record header truncated", "record body truncated", "checksum failed"}

\* C1: for a frame at any offset, next accepts the checksum exactly when the
\* frame's own bytes sum to 0 modulo 256 or its checksum byte is 0, and else
\* fails with "checksum failed"; earlier frames have no influence.
C1_ChecksumOfOwnFrame ==
    (Called /\ FrameAt(hdr) /\ FrameLen(hdr) >= 1)
        => (IsErr("checksum failed")
                <=> ~(OwnSumZero(hdr) \/ ChecksumByte(hdr) = 0))

\* C2: every error next returns carries an offset, the offset of the type
\* byte of the failing frame.
C2_ErrorOffsetIsFrameStart ==
    result.kind = "Err" => result.offset = Some(hdr)

\* C3: after next decoded the frame at offset o with length field L, the
\* following call reads its header at o + 3 + L, however many payload bytes
\* the sub-decoder consumed.
C3_NextFrameFollows ==
    [][Decoded => hdr' = hdr + 3 + FrameLen(hdr)]_vars

\* a record was decoded that left payload bytes unread, in a frame that is
\* neither the first nor the last of the buffer
C3_Witness ==
    /\ Decoded
    /\ hdr > 0
    /\ ptr < next - 1
    /\ next = hdr + 3 + FrameLen(hdr)
    /\ next < Len(obj)

\* C4: a call that starts at the end of the buffer (the empty buffer too)
\* returns None, and after None every call returns None.
C4_NoneAtEndForever ==
    [][/\ hdr' = Len(obj') => result'.kind = "None"
       /\ result.kind = "None" => result'.kind = "None"]_vars

\* None after two frames that end the buffer
C4_Witness ==
    /\ result.kind = "None"
    /\ hdr = Len(obj)
    /\ Len(obj) >= 8

\* C5: a frame whose checksum byte is 0 passes the checksum whatever its
\* other bytes are and wherever it sits.
C5_ZeroChecksumPasses ==
    (Called /\ FrameAt(hdr) /\ FrameLen(hdr) >= 1 /\ ChecksumByte(hdr) = 0)
        => ~IsErr("checksum failed")

\* a frame behind others, its bytes not summing to 0, its checksum byte 0,
\* was read without error
C5_Witness ==
    /\ Called
    /\ result.kind # "Err"
    /\ hdr > 0
    /\ FrameAt(hdr)
    /\ FrameLen(hdr) >= 2
    /\ ChecksumByte(hdr) = 0
    /\ ~OwnSumZero(hdr)

\* C6: with exactly 1 or 2 bytes left where the next frame should start,
\* next fails with "record header truncated".
C6_TruncatedHeader ==
    (Called /\ Len(obj) - hdr \in {1, 2}) => IsErr("record header truncated")

\* two bytes were left behind a frame
C6_Witness ==
    /\ IsErr("record header truncated")
    /\ hdr > 0
    /\ Len(obj) - hdr = 2

\* C7: with the three header bytes in the buffer, next fails with "record
\* body truncated" exactly when fewer than length bytes follow the header;
\* a header in the last three bytes with length 0 gives no truncation error.
C7_TruncatedBody ==
    (Called /\ HeaderAt(hdr))
        => /\ IsErr("record body truncated")
                <=> Len(obj) - (hdr + 3) < FrameLen(hdr)
           /\ (Len(obj) = hdr + 3 /\ FrameLen(hdr) = 0)
                => ~(result.kind = "Err" /\ result.details \in TruncatedDetails)

\* the type bytes whose sub-decoder starts with a counted string: THEADR,
\* EXTDEF, LNAMES, COMDEF, LEXTDEF (twice), ALIAS
StringFirstTypes == {128, 140, 150, 176, 180, 181, 198}

\* C8: a counted string whose length byte announces more bytes than are left
\* before the checksum byte fails as truncated; no decoded string holds the
\* checksum byte or bytes of a following frame.
C8_StringWithinPayload ==
    (/\ Called
     /\ FrameAt(hdr)
     /\ FrameLen(hdr) >= 2
     /\ FrameType(hdr) \in StringFirstTypes
     /\ ~(result.kind = "Err" /\ result.details \in FrameLayerDetails))
        => /\ obj[hdr + 4] > FrameLen(hdr) - 2
                => (result.kind = "Err" /\ result.details \in TruncatedDetails)
           /\ result.kind = "THEADR" => Len(result.name) <= FrameLen(hdr) - 2

\* C9: a frame that passed the framer and whose type byte is not in the
\* dispatch table yields Unknown with that type byte and no error, whatever
\* its payload; the next frame starts behind it.
C9_UnknownType ==
    (/\ Called
     /\ HeaderAt(hdr)
     /\ FrameType(hdr) \notin DispatchTypes
     /\ ~(result.kind = "Err" /\ result.details \in FrameLayerDetails)
     /\ ~IsErr("next_uint: record is truncated"))
        => /\ result = [kind |-> "Unknown", rectype |-> FrameType(hdr)]
           /\ next = hdr + 3 + FrameLen(hdr)

\* Unknown for a frame behind another, with payload bytes before the checksum
C9_Witness ==
    /\ result.kind = "Unknown"
    /\ hdr > 0
    /\ FrameLen(hdr) >= 3
    /\ next = hdr + 3 + FrameLen(hdr)

\* C10: for every v in 0..0x7fff both next_index cursors return v on the
\* encoding of v and consume exactly the encoded bytes.
C10_IndexRoundTrip ==
    /\ result.kind = "Index"
            => /\ result.ok
               /\ result.val = input
               /\ ptr = 3 + Len(EncodeIndex(input))
    /\ rresult.kind = "Index"
            => /\ rresult.ok
               /\ rresult.val = input
               /\ rnext = Len(EncodeIndex(input))

\* both cursors have read the two-byte encoding of 0x7fff, a byte behind it
C10_Witness ==
    /\ result.kind = "Index"
    /\ rresult.kind = "Index"
    /\ input = MaxIndex
    /\ Len(rec) = 3


-----------------------------------------------------------------------------
(* One record alone in the buffer.  The checksum byte is 0, which passes.  *)

\* the frame of type t with the payload body
Frame(t, body) == Header(t, Len(body) + 1) \o body \o <<0>>

\* the caller before its first call, on one of the frames
InitFrame(frames) ==
    /\ obj \in frames
    /\ start = 0
    /\ ptr = 0
    /\ next = 0
    /\ result = Fresh
    /\ hdr = 0
    /\ rec = <<>>
    /\ rnext = 0
    /\ rresult = Fresh
    /\ input = 0
    /\ Idle

\* the payload of the frame at offset 0, the checksum byte not counted
Payload == slice(obj, 3, Len(obj) - 1)

\* the bytes of the payload from the 0-based offset p, size of them
PayloadUint(p, size) == uint(slice(Payload, p, p + size))

\* the last call of Parser::next read the frame at offset 0
First == Called /\ hdr = 0

-----------------------------------------------------------------------------
(* SEGDEF records *)

\* Absolute/Private, with BIG, Paragraph/Private, with BIG, Byte/Public,
\* an align that does not exist, a combine that does not exist
SegdefAcbp == {0, 2, 96, 98, 40, 224, 4}

\* most bytes behind the first ACBP byte
MaxSegdefTail == 10

SegdefFrames ==
    {Frame(t, <<acbp>> \o tail) :
        t \in {152, 153}, acbp \in SegdefAcbp,
        tail \in SeqsUpTo({0, 1}, MaxSegdefTail)}

InitSegdef == InitFrame(SegdefFrames)

SpecSegdef == InitSegdef /\ [][Next]_vars

\* the width of the length field of the record type at offset 0
SegdefWidth == IF obj[1] = 153 THEN 4 ELSE 2

\* the first ACBP byte has align 0
FirstAbsolute == Payload[1] \div 32 = 0

\* where the length field of the first entry lies in the payload
FirstLengthAt == IF FirstAbsolute THEN 4 ELSE 1

\* C11: in a decoded SEGDEF every entry has abs exactly when its align is
\* Absolute; the first entry has abs exactly when ACBP >> 5 is 0, and then
\* frame and offset are the three bytes behind the ACBP byte and the length
\* field lies behind them, else the length field lies behind the ACBP byte.
C11_AbsIffAbsolute ==
    (First /\ result.kind = "SEGDEF" /\ result.segs # <<>>) =>
        LET e == result.segs[1] IN
        /\ \A i \in 1..Len(result.segs) :
              (result.segs[i].abs # None) <=> (result.segs[i].align = "Absolute")
        /\ (e.abs # None) <=> FirstAbsolute
        /\ FirstAbsolute =>
              e.abs = Some([frame |-> PayloadUint(1, 2), offset |-> Payload[4]])
        /\ IF bit(Payload[1], 1)
           THEN PayloadUint(FirstLengthAt, SegdefWidth) = 0
           ELSE e.length = as_u64(PayloadUint(FirstLengthAt, SegdefWidth))

\* a 32-bit SEGDEF whose first entry is absolute with a frame, an offset and
\* a length that are not 0
C11_Witness ==
    /\ First /\ result.kind = "SEGDEF" /\ result.segs # <<>>
    /\ obj[1] = 153
    /\ result.segs[1].abs = Some([frame |-> 257, offset |-> 1])
    /\ result.segs[1].length = U64(256, 1)

\* C12: with BIG set in the first ACBP byte, a decoded entry has length 2^16
\* (type 0x98) or 2^32 (type 0x99), and a length field that is not 0 fails
\* with "length not zero when BIG bit it set"; with BIG clear the decoded
\* length is the encoded field.
C12_BigLength ==
    (First /\ obj[1] \in {152, 153} /\ Len(Payload) >= 1) =>
        LET big == bit(Payload[1], 1)
            whole == Len(Payload) >= FirstLengthAt + SegdefWidth
            enc == PayloadUint(FirstLengthAt, SegdefWidth)
        IN
        /\ (result.kind = "SEGDEF" /\ result.segs # <<>>) =>
              result.segs[1].length =
                  IF big
                  THEN (IF obj[1] = 153 THEN U64(65536, 0) ELSE U64(1, 0))
                  ELSE as_u64(enc)
        /\ ( /\ big /\ whole /\ enc # 0
             /\ Align_try_from(Payload[1] \div 32).ok
             /\ Combine_try_from((Payload[1] \div 4) % 8).ok )
           => IsErr("length not zero when BIG bit it set")

\* a 32-bit SEGDEF decoded with BIG set
C12_Witness ==
    /\ First /\ result.kind = "SEGDEF" /\ obj[1] = 153
    /\ bit(Payload[1], 1)
    /\ result.segs[1].length = U64(65536, 0)

-----------------------------------------------------------------------------
(* PUBDEF and LPUBDEF records *)

\* an index field: 0 and 1 in one byte and in two
IndexFields == {<<0>>, <<1>>, <<128, 0>>, <<128, 1>>}

\* most bytes behind the group and the segment index
MaxPubdefTail == 8

PubdefFrames ==
    {Frame(t, g \o sg \o tail) :
        t \in {144, 145, 182, 183}, g \in IndexFields, sg \in IndexFields,
        tail \in SeqsUpTo({0, 1}, MaxPubdefTail)}

InitPubdef == InitFrame(PubdefFrames)

SpecPubdef == InitPubdef /\ [][Next]_vars

\* the bytes the index field at the 0-based offset p of the payload takes
IndexSize(p) == IF Payload[p + 1] < 128 THEN 1 ELSE 2

\* the value the index field at the 0-based offset p of the payload encodes
IndexValue(p) ==
    IF Payload[p + 1] < 128
    THEN Payload[p + 1]
    ELSE (Payload[p + 1] - 128) * 256 + Payload[p + 2]

\* C13: in a decoded PUBDEF or LPUBDEF exactly one of "group or seg is
\* present" and "frame is present" holds; the frame is present exactly when
\* the group and the segment index are both encoded as 0, it is then the two
\* bytes behind them, and a record without publics ends behind what was
\* read.
C13_FrameIffNoGroupNoSeg ==
    (First /\ result.kind \in {"PUBDEF", "LPUBDEF"}) =>
        LET sp == IndexSize(0)
            fp == sp + IndexSize(sp)
            bothZero == IndexValue(0) = 0 /\ IndexValue(sp) = 0
        IN
        /\ (result.group # None \/ result.seg # None) <=> (result.frame = None)
        /\ (result.frame # None) <=> bothZero
        /\ bothZero => result.frame = Some(PayloadUint(fp, 2))
        /\ result.publics = <<>> =>
              Len(Payload) = fp + (IF bothZero THEN 2 ELSE 0)

\* a 32-bit LPUBDEF with the group index 0 in two bytes, a frame that is
\* not 0 and a public
C13_Witness ==
    /\ First /\ result.kind = "LPUBDEF" /\ obj[1] = 183
    /\ IndexSize(0) = 2
    /\ result.frame = Some(257)
    /\ result.publics # <<>>


-----------------------------------------------------------------------------
(* GRPDEF records *)

\* most bytes behind the group name index
MaxGrpdefTail == 4

\* the segment type FF, a type that is not FF, the indexes 0 and 1
GrpdefBytes == {255, 2, 0, 1}

GrpdefFrames ==
    {Frame(154, name \o tail) :
        name \in IndexFields, tail \in SeqsUpTo(GrpdefBytes, MaxGrpdefTail)}

InitGrpdef == InitFrame(GrpdefFrames)

SpecGrpdef == InitGrpdef /\ [][Next]_vars

\* C14: a GRPDEF whose payload is the group name index alone is rejected,
\* and a decoded GRPDEF has at least one segment.
C14_EmptyGrpdefRejected ==
    (First /\ obj[1] = 154) =>
        /\ result.kind = "GRPDEF" => result.segs # <<>>
        /\ Len(Payload) = IndexSize(0) => result.kind = "Err"


-----------------------------------------------------------------------------
(* The records that carry name indexes *)

\* most bytes of a CEXTDEF payload, and behind the ACBP byte and the length
\* of a SEGDEF
MaxNameTail == 4

\* CEXTDEF: pairs of one-byte indexes
CextdefFrames == {Frame(188, b) : b \in SeqsUpTo({0, 1}, MaxNameTail)}

\* COMDAT: flags, attributes, align, offset, type index, base group 1,
\* base segment 0, then the name index
ComdatFrames ==
    {Frame(194, <<0, 0, 0, 0, 0, 0, 1, 0>> \o name) : name \in IndexFields}

\* SEGDEF: Paragraph/Private, length 0, then class, name and overlay
NamedSegdefFrames ==
    {Frame(152, <<96, 0, 0>> \o tail) : tail \in SeqsUpTo({0, 1}, MaxNameTail)}

NameFrames ==
    GrpdefFrames \cup CextdefFrames \cup ComdatFrames \cup NamedSegdefFrames

InitNames == InitFrame(NameFrames)

SpecNames == InitNames /\ [][Next]_vars

\* C19: no name index field of a decoded record is the integer 0: the
\* optional ones (SEGDEF class, name, overlay) are None or hold an index
\* that is not 0, the others (GRPDEF name, CEXTDEF name, COMDAT name) are
\* never 0.
C19_ZeroNameIsAbsent ==
    First =>
        /\ result.kind = "SEGDEF" =>
              \A i \in 1..Len(result.segs) :
                  /\ result.segs[i].class # Some(0)
                  /\ result.segs[i].name # Some(0)
                  /\ result.segs[i].overlay # Some(0)
        /\ result.kind = "GRPDEF" => result.name # 0
        /\ result.kind = "CEXTDEF" =>
              \A i \in 1..Len(result.externs) : result.externs[i].name # 0
        /\ result.kind = "COMDAT" => result.name # 0

-----------------------------------------------------------------------------
(* FIXUPP records *)

\* most bytes behind the fix data byte of the first subrecord
MaxFixuppTail == 6

\* the first subrecord is a fixup, segment relative, of location Word, with
\* data offset 0x101, and with each of the 256 fix data bytes
FixuppFrames ==
    {Frame(t, <<197, 1, fixdata>> \o tail) :
        t \in {156, 157}, fixdata \in Byte,
        tail \in SeqsUpTo({0, 1}, MaxFixuppTail)}

InitFixupp == InitFrame(FixuppFrames)

SpecFixupp == InitFixupp /\ [][Next]_vars

\* C15: in the first fixup of a decoded FIXUPP, frame_thread is present
\* exactly when bit 0x80 of the fix data is set and frame_method exactly when
\* it is clear, target_thread and target_method likewise by bit 0x08;
\* frame_datum is present exactly when frame_method is Segdef, Grpdef or
\* Extdef and target_datum exactly when target_method is present, each the
\* index at its place; with bit 0x04 set the displacement is 0 and takes no
\* bytes, else it is the 2 (type 0x9c) or 4 (type 0x9d) bytes that follow.
C15_FixupFields ==
    (First /\ result.kind = "FIXUPP" /\ result.fixups # <<>>) =>
        LET f == result.fixups[1]
            fixdata == Payload[3]
            w == IF obj[1] = 157 THEN 4 ELSE 2
            fd == f.frame_datum # None
            td == f.target_datum # None
            tp == 3 + (IF fd THEN IndexSize(3) ELSE 0)
            dp == tp + (IF td THEN IndexSize(tp) ELSE 0)
        IN
        /\ f.sub = "Fixup"
        /\ (f.frame_thread # None) <=> bit(fixdata, 7)
        /\ (f.frame_method # None) <=> ~bit(fixdata, 7)
        /\ (f.target_thread # None) <=> bit(fixdata, 3)
        /\ (f.target_method # None) <=> ~bit(fixdata, 3)
        /\ fd <=> /\ f.frame_method # None
                  /\ f.frame_method[1] \in {"Segdef", "Grpdef", "Extdef"}
        /\ td <=> f.target_method # None
        /\ fd => f.frame_datum = Some(IndexValue(3))
        /\ td => f.target_datum = Some(IndexValue(tp))
        /\ f.target_displacement =
              IF bit(fixdata, 2) THEN 0 ELSE PayloadUint(dp, w)
        /\ Len(result.fixups) = 1 =>
              Len(Payload) = dp + (IF bit(fixdata, 2) THEN 0 ELSE w)

\* a 32-bit fixup whose frame comes from a thread, with a target method, a
\* target datum and a displacement that is not 0
C15_Witness ==
    /\ First /\ result.kind = "FIXUPP" /\ obj[1] = 157
    /\ Len(result.fixups) = 1
    /\ result.fixups[1].frame_thread # None
    /\ result.fixups[1].target_datum = Some(1)
    /\ result.fixups[1].target_displacement = 65537


-----------------------------------------------------------------------------
(* MODEND records *)

\* most bytes behind the fix data byte
MaxModendTail == 6

\* main module with a start address and each of the 256 fix data bytes, and
\* a module without a start address
ModendFrames ==
    {Frame(t, <<193, fix_data>> \o tail) :
        t \in {138, 139}, fix_data \in Byte,
        tail \in SeqsUpTo({0, 1}, MaxModendTail)}
    \cup {Frame(t, <<129>> \o tail) : t \in {138, 139}, tail \in SeqsUpTo({0, 1}, 1)}

InitModend == InitFrame(ModendFrames)

SpecModend == InitModend /\ [][Next]_vars

\* C16: a MODEND with a start address whose fix data byte has the F-thread
\* bit 0x80 set does not fail with "invalid frame method", whatever the
\* bits (fix_data >> 4) & 7 are, and when it decodes it has no frame_datum;
\* with the F-thread bit clear and those bits no frame method it fails with
\* "invalid frame method".
C16_ModendFrameThread ==
    (First /\ obj[1] \in {138, 139} /\ Len(Payload) >= 2 /\ bit(Payload[1], 6)) =>
        LET fix_data == Payload[2] IN
        /\ bit(fix_data, 7) =>
              /\ ~IsErr("invalid frame method $" \o hex2(field(fix_data, 4, 3)))
              /\ result.kind = "MODEND" =>
                    result.start_address[1].frame_datum = None
        /\ (~bit(fix_data, 7) /\ ~FrameMethod_try_from(field(fix_data, 4, 3)).ok)
              => IsErr("invalid frame method $" \o hex2(field(fix_data, 4, 3)))


-----------------------------------------------------------------------------
(* COMDEF records *)

\* most bytes behind the lead byte of an encoded length
MaxComdefTail == 4

\* an empty name, the type index 0, a far (0x61) or a near (0x62) datatype,
\* then an encoded length with each of the 256 lead bytes; and a far entry
\* whose second encoded length has a lead byte above 0x80
ComdefFrames ==
    {Frame(176, <<0, 0, datatype, lead>> \o tail) :
        datatype \in {97, 98}, lead \in Byte,
        tail \in SeqsUpTo({0, 2}, MaxComdefTail)}
    \cup
    {Frame(176, <<0, 0, 97, 3, lead>> \o tail) :
        lead \in {129, 130, 131, 132},
        tail \in SeqsUpTo({0, 2}, MaxComdefTail)}

InitComdef == InitFrame(ComdefFrames)

SpecComdef == InitComdef /\ [][Next]_vars

\* the bytes the encoded length at the 0-based offset p of the payload takes
EncodedLengthSize(p) ==
    LET lead == Payload[p + 1] IN
    IF lead <= 128 THEN 1 ELSE lead - 126

\* the value of the encoded length at the 0-based offset p of the payload
EncodedLengthValue(p) ==
    LET lead == Payload[p + 1] IN
    IF lead <= 128 THEN lead ELSE PayloadUint(p + 1, lead - 127)

\* the encoded length at the 0-based offset p lies whole in the payload
\* and its lead byte is at most 0x83
EncodedLengthWhole(p) ==
    /\ p < Len(Payload)
    /\ Payload[p + 1] <= 131
    /\ p + EncodedLengthSize(p) <= Len(Payload)

\* C17: in the first entry of a COMDEF (empty name, one-byte type index) the
\* length is the encoded length behind the datatype, the lead byte itself up
\* to 0x80 and the 2, 3 or 4 bytes behind the lead bytes 0x81, 0x82, 0x83;
\* for the datatype 0x61 it is the product of that and the encoded length
\* that follows, for another datatype one encoded length is read; a lead
\* byte from 0x84 on fails with "invalid encoded length lead byte".
C17_EncodedLength ==
    (First /\ obj[1] = 176 /\ Len(Payload) >= 4
           /\ Payload[1] = 0 /\ Payload[2] < 128) =>
        LET datatype == Payload[3]
            second == 3 + EncodedLengthSize(3)
        IN
        /\ Payload[4] >= 132 =>
              IsErr("invalid encoded length lead byte " \o hex2(Payload[4]))
        /\ ( /\ datatype = 97 /\ EncodedLengthWhole(3)
             /\ second < Len(Payload) /\ Payload[second + 1] >= 132 ) =>
              IsErr("invalid encoded length lead byte " \o hex2(Payload[second + 1]))
        /\ (EncodedLengthWhole(3) /\ datatype # 97) =>
              /\ result.kind # "Err" \/ Len(Payload) > second
              /\ result.kind = "COMDEF" =>
                    /\ result.commons[1].length = EncodedLengthValue(3)
                    /\ result.commons[1].datatype = datatype
                    /\ Len(result.commons) = 1 => Len(Payload) = second
        /\ (EncodedLengthWhole(3) /\ datatype = 97 /\ EncodedLengthWhole(second)) =>
              /\ result.kind # "Err"
                    \/ Len(Payload) > second + EncodedLengthSize(second)
              /\ result.kind = "COMDEF" =>
                    /\ result.commons[1].length =
                          EncodedLengthValue(3) * EncodedLengthValue(second)
                    /\ Len(result.commons) = 1 =>
                          Len(Payload) = second + EncodedLengthSize(second)

\* a far entry whose length is the product of a one-byte and a four-byte
\* encoded length
C17_Witness ==
    /\ First /\ result.kind = "COMDEF" /\ Len(result.commons) = 1
    /\ Payload[3] = 97 /\ Payload[4] = 3 /\ Payload[5] = 131
    /\ result.commons[1].length = 3 * (2 + 2 * 65536)


-----------------------------------------------------------------------------
(* COMENT records *)

\* most bytes behind the class byte
MaxComentTail == 3

\* NUL, a count of one, the letter A, a byte that is no UTF-8
ComentBytes == {0, 1, 65, 224}

\* nopurge alone and nolist alone, each of the 256 class bytes
ComentFrames ==
    {Frame(136, <<comtype, comclass>> \o tail) :
        comtype \in {128, 64}, comclass \in Byte,
        tail \in SeqsUpTo(ComentBytes, MaxComentTail)}

InitComent == InitFrame(ComentFrames)

SpecComent == InitComent /\ [][Next]_vars

\* the classes whose text is the rest of the payload
RestClasses == {0, 157, 159, 161, 223}

RestVariant(comclass) ==
    CASE comclass = 0 -> "Translator"
      [] comclass = 157 -> "MemoryModel"
      [] comclass = 159 -> "DefaultLibrary"
      [] comclass = 161 -> "NewOMF"
      [] comclass = 223 -> "User"

\* C18: a COMENT is decoded by its class byte.  The rest classes carry the
\* payload behind the class byte, up to the checksum byte, as text (when it
\* is UTF-8); DosSeg and LinkPassSeparator carry nothing; Libmod carries
\* the counted string behind the class byte (when the count lies within
\* the payload); WeakExtern carries the pairs of indexes up to the payload
\* end; every other class is Unknown without error; the header keeps
\* comtype and comclass, nopurge is comtype & 0x80 and nolist comtype & 0x40.
C18_ComentByClass ==
    (First /\ obj[1] = 136 /\ Len(Payload) >= 2) =>
        LET comtype == Payload[1]
            comclass == Payload[2]
            rest == slice(Payload, 2, Len(Payload))
            decoded(c) == result.kind = "COMENT" /\ result.coment = c
        IN
        /\ result.kind = "COMENT" =>
              /\ result.header = [comtype |-> comtype, comclass |-> comclass]
              /\ nopurge(result.header) <=> comtype >= 128
              /\ nolist(result.header) <=> (comtype \div 64) % 2 = 1
        /\ comclass \in RestClasses =>
              IF utf8_valid(rest)
              THEN decoded([variant |-> RestVariant(comclass), text |-> rest])
              ELSE IsErr("FromUtf8Error")
        /\ comclass = 158 => decoded([variant |-> "DosSeg"])
        /\ comclass = 162 => decoded([variant |-> "LinkPassSeparator"])
        /\ (comclass = 163 /\ rest # <<>> /\ 1 + rest[1] <= Len(rest)) =>
              IF utf8_valid(SubSeq(rest, 2, 1 + rest[1]))
              THEN decoded([variant |-> "Libmod",
                            text |-> SubSeq(rest, 2, 1 + rest[1])])
              ELSE IsErr("FromUtf8Error")
        /\ (comclass = 168 /\ \A i \in 1..Len(rest) : rest[i] < 128) =>
              IF Len(rest) % 2 = 0
              THEN decoded([variant |-> "WeakExtern",
                            externs |-> [i \in 1..(Len(rest) \div 2) |->
                                            [weak |-> rest[2 * i - 1],
                                             default |-> rest[2 * i]]]])
              ELSE result.kind = "Err"
        /\ comclass \notin RestClasses \cup {158, 162, 163, 168} =>
              decoded([variant |-> "Unknown"])

\* a Libmod with nopurge set whose counted string is "A", a byte behind it
C18_Witness ==
    /\ First /\ result.kind = "COMENT"
    /\ nopurge(result.header) /\ ~nolist(result.header)
    /\ Len(Payload) = 5
    /\ result.coment = [variant |-> "Libmod", text |-> <<65>>]


-----------------------------------------------------------------------------
(* The dispatch on the type byte *)

\* the variant the table gives for a type byte
TableKind(t) ==
    CASE t = 128 -> "THEADR"
      [] t = 136 -> "COMENT"
      [] t \in {138, 139} -> "MODEND"
      [] t = 140 -> "EXTDEF"
      [] t \in {144, 145} -> "PUBDEF"
      [] t = 150 -> "LNAMES"
      [] t \in {152, 153} -> "SEGDEF"
      [] t = 154 -> "GRPDEF"
      [] t \in {156, 157} -> "FIXUPP"
      [] t \in {160, 161} -> "LEDATA"
      [] t = 176 -> "COMDEF"
      [] t \in {178, 179} -> "BAKPAT"
      [] t \in {180, 181} -> "LEXTDEF"
      [] t \in {182, 183} -> "LPUBDEF"
      [] t = 188 -> "CEXTDEF"
      [] t \in {194, 195} -> "COMDAT"
      [] t = 198 -> "ALIAS"
      [] OTHER -> "Unknown"

\* the width the table gives: 4 for the odd type byte of a 16/32 pair
TableWidth(t) ==
    IF t \in {139, 145, 153, 157, 161, 179, 183, 195} THEN 4 ELSE 2

\* a field of w bytes whose bytes all differ
Wide(w) == SubSeq(<<1, 2, 3, 4>>, 1, w)

\* a payload that the decoder of the variant takes whole when it reads its
\* first offset, length or displacement with w bytes
KindBody(kind, w) ==
    CASE kind = "THEADR" -> <<1, 65>>
      [] kind = "COMENT" -> <<0, 158>>
      [] kind = "MODEND" -> <<193, 80, 1>> \o Wide(w)
      [] kind = "EXTDEF" -> <<1, 65, 0>>
      [] kind = "PUBDEF" -> <<1, 1, 0>> \o Wide(w) \o <<0>>
      [] kind = "LNAMES" -> <<1, 65>>
      [] kind = "SEGDEF" -> <<96>> \o Wide(w) \o <<0, 0, 0>>
      [] kind = "GRPDEF" -> <<1, 255, 1>>
      [] kind = "FIXUPP" -> <<197, 1, 136>> \o Wide(w)
      [] kind = "LEDATA" -> <<1>> \o Wide(w) \o <<65>>
      [] kind = "COMDEF" -> <<0, 0, 98, 1>>
      [] kind = "BAKPAT" -> <<1, 0>> \o Wide(w) \o Wide(w)
      [] kind = "LEXTDEF" -> <<1, 65, 0>>
      [] kind = "LPUBDEF" -> <<1, 1, 0>> \o Wide(w) \o <<0>>
      [] kind = "CEXTDEF" -> <<1, 1>>
      [] kind = "COMDAT" -> <<0, 0, 0>> \o Wide(w) \o <<0, 1, 0, 1>>
      [] kind = "ALIAS" -> <<1, 65, 1, 66>>
      [] OTHER -> <<>>

\* every type byte in front of every such payload
DispatchFrames ==
    {Frame(t, KindBody(TableKind(u), w)) : t \in Byte, u \in Byte, w \in {2, 4}}

InitDispatch == InitFrame(DispatchFrames)

SpecDispatch == InitDispatch /\ [][Next]_vars

\* the first field of the record whose width depends on the record type
WideField(r) ==
    CASE r.kind = "MODEND" -> r.start_address[1].target_disp[1]
      [] r.kind \in {"PUBDEF", "LPUBDEF"} -> r.publics[1].offset
      [] r.kind = "SEGDEF" -> r.segs[1].length.hi * 65536 + r.segs[1].length.lo
      [] r.kind = "FIXUPP" -> r.fixups[1].target_displacement
      [] r.kind = "LEDATA" -> r.offset
      [] r.kind = "BAKPAT" -> r.fixups[1].offset
      [] r.kind = "COMDAT" -> r.offset

\* C20: a decoded frame has the variant the table gives for its type byte;
\* a type byte outside the table yields Unknown with that byte; the payload
\* made for the variant and width of the type byte decodes, and its first
\* width-dependent field is read with the table's width.
C20_DispatchTable ==
    First =>
        LET t == obj[1]
            kind == TableKind(t)
        IN
        /\ Decoded => result.kind = kind
        /\ kind = "Unknown" => result = [kind |-> "Unknown", rectype |-> t]
        /\ (kind # "Unknown" /\ Payload = KindBody(kind, TableWidth(t))) =>
              /\ result.kind = kind
              /\ kind \in {"MODEND", "PUBDEF", "LPUBDEF", "SEGDEF", "FIXUPP",
                           "LEDATA", "BAKPAT", "COMDAT"} =>
                    WideField(result) = uint(Wide(TableWidth(t)))

\* the 32-bit COMDAT type byte on its payload
C20_Witness ==
    /\ First /\ obj[1] = 195 /\ result.kind = "COMDAT"
    /\ result.offset = uint(<<1, 2, 3, 4>>)


-----------------------------------------------------------------------------
(* The enum fields of the records *)

\* SEGDEF: every ACBP byte, then zeros for the frame and offset of an
\* absolute segment, the length and the three name indexes
EnumSegdefFrames ==
    {Frame(152, <<acbp>> \o
            (IF field(acbp, 5, 3) = 0 THEN <<0, 0, 0>> ELSE <<>>) \o
            <<0, 0, 1, 1, 1>>) : acbp \in Byte}

\* FIXUPP: a thread subrecord for every lead byte below 0x80, a fixup
\* subrecord for every lead byte from 0x80 on and for every fix data byte
EnumFixuppFrames ==
    {Frame(156, <<lead, 1>>) : lead \in 0..127}
    \cup {Frame(156, <<lead, 0, 0, 1, 1, 0, 0>>) : lead \in 128..255}
    \cup {Frame(156, <<132, 0, fix_data, 1, 1, 0, 0>>) : fix_data \in Byte}

\* MODEND: main module with a start address, every fix data byte
EnumModendFrames ==
    {Frame(138, <<193, fix_data, 1, 1, 0, 0>>) : fix_data \in Byte}

\* BAKPAT: segment 1, every location byte, one offset/value pair
EnumBakpatFrames ==
    {Frame(178, <<1, loc, 0, 0, 0, 0>>) : loc \in Byte}

\* COMDAT: every attributes byte and every align byte; offset 0, type
\* index 0, base group 1, base segment 0, name 1
EnumComdatFrames ==
    {Frame(194, <<0, attributes, 0, 0, 0, 0, 1, 0, 1>>) : attributes \in Byte}
    \cup {Frame(194, <<0, 0, align, 0, 0, 0, 1, 0, 1>>) : align \in Byte}

EnumFrames ==
    EnumSegdefFrames \cup EnumFixuppFrames \cup EnumModendFrames
    \cup EnumBakpatFrames \cup EnumComdatFrames

InitEnums == InitFrame(EnumFrames)

SpecEnums == InitEnums /\ [][Next]_vars

\* the documented values of each enum field
AlignValues == 0..5
CombineValues == {0, 2, 4, 5, 6, 7}
FrameMethodValues == {0, 1, 2, 4, 5}
TargetMethodValues == {0, 1, 2, 4, 5, 6}
FixupLocationValues == {0, 1, 2, 3, 5, 9, 11, 13}
BakpatLocationValues == {0, 1, 2, 9}
ComdatSelectionValues == 0..3
ComdatAllocationValues == 0..4
ComdatAlignValues == 0..5

\* the call failed with the error of an enum table
InvalidEnum == result.kind = "Err" /\ result.details \in InvalidEnumDetails

\* the tables accept the documented values and no other
EnumTablesExact ==
    /\ \A v \in Byte :
        /\ Align_try_from(v).ok <=> v \in AlignValues
        /\ Combine_try_from(v).ok <=> v \in CombineValues
        /\ FrameMethod_try_from(v).ok <=> v \in FrameMethodValues
        /\ TargetMethod_try_from(v).ok <=> v \in TargetMethodValues
        /\ FixupLocation_try_from(v).ok <=> v \in FixupLocationValues
        /\ BakpatLocation_try_from(v).ok <=> v \in BakpatLocationValues
        /\ ComdatSelection_try_from(v).ok <=> v \div 16 \in ComdatSelectionValues
        /\ ComdatAllocation_try_from(v).ok <=> v % 16 \in ComdatAllocationValues
    /\ \A v \in {2, 4, 7} : Combine_try_from(v).val = "Public"
    /\ \A v \in {2, 9} : BakpatLocation_try_from(v).val = "Dword"

\* a SEGDEF whose align or combine bits are no documented value fails
EnumSegdef ==
    (First /\ obj[1] = 152) =>
        LET acbp == Payload[1] IN
        (field(acbp, 5, 3) \notin AlignValues \/ field(acbp, 2, 3) \notin CombineValues)
            => InvalidEnum

\* a FIXUPP whose first subrecord holds an undocumented method or location
\* fails
EnumFixupp ==
    (First /\ obj[1] = 156) =>
        LET lead == Payload[1]
            fix_data == Payload[3]
        IN  IF lead < 128
            THEN IF bit(lead, 6)
                 THEN field(lead, 2, 3) \notin FrameMethodValues => InvalidEnum
                 ELSE field(lead, 2, 2) \notin TargetMethodValues => InvalidEnum
            ELSE \/ field(lead, 2, 4) \notin FixupLocationValues
                 \/ ~bit(fix_data, 7) /\ field(fix_data, 4, 3) \notin FrameMethodValues
                 \/ ~bit(fix_data, 3) /\ field(fix_data, 0, 3) \notin TargetMethodValues
                 => InvalidEnum

\* a MODEND whose start address holds an undocumented method fails
EnumModend ==
    (First /\ obj[1] = 138) =>
        LET fix_data == Payload[2] IN
        (\/ ~bit(fix_data, 7) /\ field(fix_data, 4, 3) \notin FrameMethodValues
         \/ ~bit(fix_data, 3) /\ field(fix_data, 0, 3) \notin TargetMethodValues)
            => InvalidEnum

\* a BAKPAT whose location byte is no documented value fails
EnumBakpat ==
    (First /\ obj[1] = 178) =>
        (Payload[2] \notin BakpatLocationValues => InvalidEnum)

\* a COMDAT whose selection nibble, allocation nibble or align byte is no
\* documented value fails
EnumComdat ==
    (First /\ obj[1] = 194) =>
        LET attributes == Payload[2]
            align == Payload[3]
        IN  (\/ attributes \div 16 \notin ComdatSelectionValues
             \/ attributes % 16 \notin ComdatAllocationValues
             \/ align \notin ComdatAlignValues)
                => InvalidEnum

\* C21: each enum table accepts exactly its documented values, and a record
\* with any other byte value in an enum field fails with an invalid-enum
\* error instead of producing a record.
C21_EnumFieldsExact ==
    /\ EnumTablesExact
    /\ EnumSegdef
    /\ EnumFixupp
    /\ EnumModend
    /\ EnumBakpat
    /\ EnumComdat

-----------------------------------------------------------------------------
(* objdump: dump_one_object on each object image (objdump/main.rs)          *)

\* the mutant of Objdump_lnames: the names of a record replace the table
Objdump_lnames_replace(self, names) ==
    [self EXCEPT !.lnames = << <<>> >> \o names]

\* Objdump::lnames: every name of the record is pushed, in order
Objdump_lnames(self, names) ==
    [self EXCEPT !.lnames = self.lnames \o names]

\* most object images in a run, most frames in an image
MaxObjs == 2
MaxDumpFrames == 2

\* LNAMES with the names "A" and "B", LNAMES with the name "C", and a
\* MODEND without a start address
DumpFrames ==
    {Frame(150, <<1, 65, 1, 66>>), Frame(150, <<1, 67>>), Frame(138, <<0>>)}

\* an object image: up to MaxDumpFrames frames, one behind the other
DumpImages == {concat(fs) : fs \in SeqsUpTo(DumpFrames, MaxDumpFrames)}

\* objdump(): a file that is no library is one object image, a library is
\* dumped image by image; dump_one_object starts on the first image with
\* Parser::new and Objdump::new
InitObjdump ==
    /\ objs \in SeqsUpTo(DumpImages, MaxObjs) \ {<<>>}
    /\ objno = 1
    /\ pc = "loop"
    /\ objdump = Objdump_new
    /\ obj = objs[1]
    /\ start = 0
    /\ ptr = 0
    /\ next = 0
    /\ result = Fresh
    /\ hdr = 0
    /\ rec = <<>>
    /\ rnext = 0
    /\ rresult = Fresh
    /\ input = 0

\* one turn of the loop of dump_one_object: obj.next()? and the arm of the
\* record; an error leaves objdump() through the ? operators, Record::None
\* breaks the loop.  The arms other than LNAMES print and leave the name
\* table alone.
DumpRecord ==
    /\ pc = "loop"
    /\ LET r == Parser_next(self_now) IN
       /\ hdr' = next
       /\ result' = r.val
       /\ start' = r.self.start
       /\ ptr' = r.self.ptr
       /\ next' = r.self.next
       /\ pc' = IF ~r.ok THEN "failed"
                ELSE IF r.val.kind = "None" THEN "next"
                ELSE "loop"
       /\ objdump' = IF r.ok /\ r.val.kind = "LNAMES"
                     THEN Objdump_lnames(objdump, r.val.names)
                     ELSE objdump
    /\ UNCHANGED <<obj, objs, objno, rvars, input>>

\* dump_one_object returned Ok: lib.next_obj, and dump_one_object on the
\* image it yields, or the end of objdump()
DumpNextObject ==
    /\ pc = "next"
    /\ IF objno < Len(objs)
       THEN /\ objno' = objno + 1
            /\ obj' = objs[objno + 1]
            /\ start' = 0
            /\ ptr' = 0
            /\ next' = 0
            /\ objdump' = Objdump_new
            /\ pc' = "loop"
       ELSE /\ pc' = "done"
            /\ UNCHANGED <<obj, start, ptr, next, objno, objdump>>
    /\ UNCHANGED <<objs, result, hdr, rvars, input>>

NextObjdump == DumpRecord \/ DumpNextObject

SpecObjdump == InitObjdump /\ [][NextObjdump]_vars

\* the names of an LNAMES payload: length-prefixed strings, in order
RECURSIVE PayloadNames(_)
PayloadNames(p) ==
    IF p = <<>> THEN <<>>
    ELSE <<SubSeq(p, 2, 1 + p[1])>> \o PayloadNames(SubSeq(p, 2 + p[1], Len(p)))

\* the names of the LNAMES frames of the image b that begin before offset
\* o, in stream order
RECURSIVE StreamNames(_, _, _)
StreamNames(b, at, o) ==
    IF at >= o THEN <<>>
    ELSE LET len == b[at + 2] + 256 * b[at + 3]
             payload == SubSeq(b, at + 4, at + 3 + len - 1)
         IN  (IF b[at + 1] = 150 THEN PayloadNames(payload) ELSE <<>>)
             \o StreamNames(b, at + 3 + len, o)

\* C22: while an object image is dumped, index 0 of the name table holds
\* the reserved empty name and index k holds the k-th name of the LNAMES
\* records read so far from this image, in stream order; names of an
\* earlier image are not in the table.
C22_NameTable ==
    pc \in {"loop", "next"} =>
        /\ objdump.lnames[1] = <<>>
        /\ LET names == StreamNames(obj, 0, next) IN
           /\ Len(objdump.lnames) = Len(names) + 1
           /\ \A k \in 1..Len(names) : objdump.lnames[k + 1] = names[k]

\* the second image is being dumped, the first one held names, and two
\* LNAMES records of the second have filled indexes 1 to 3
C22_Witness ==
    /\ pc = "loop"
    /\ objno = 2
    /\ StreamNames(objs[1], 0, Len(objs[1])) # <<>>
    /\ result.kind = "LNAMES"
    /\ hdr > 0
    /\ objdump.lnames = << <<>>, <<67>>, <<65>>, <<66>> >>

-----------------------------------------------------------------------------
(* Going on behind a frame that failed *)

\* the last call failed on a frame that lies in the buffer with all the
\* bytes its length field counts: its checksum or its sub-decoder failed
FailedInside == Called /\ result.kind = "Err" /\ FrameAt(hdr)

\* the parser as a successful decode of the frame at offset o leaves it,
\* the sub-decoder having stopped at p
AfterFrame(o, p) ==
    [obj |-> obj, start |-> start, ptr |-> p, next |-> o + 3 + FrameLen(o)]

\* C23: when a call has failed on the checksum or in the sub-decoder of a
\* frame at offset o whose L bytes are inside the buffer, the following
\* call reads its header at o + 3 + L and returns what it returns on a
\* parser that has decoded the frame at o, wherever its sub-decoder stopped.
C23_UsableAfterError ==
    [][FailedInside =>
          /\ hdr' = hdr + 3 + FrameLen(hdr)
          /\ \A p \in (hdr + 3)..(hdr + 3 + FrameLen(hdr)) :
                result' = Parser_next(AfterFrame(hdr, p)).val]_vars

\* the frame at offset 0 failed its checksum and the call behind it
\* decoded the frame at offset 4
C23_Witness ==
    /\ Len(obj) >= 8
    /\ SubSeq(obj, 1, 4) = <<66, 1, 0, 1>>
    /\ hdr = 4
    /\ Decoded

-----------------------------------------------------------------------------
(* GRPDEF: the type byte of a segment element *)

\* an element of the payload p whose type byte stands at the 0-based offset
\* at or behind it has a type byte other than FF, every element before it
\* being an FF byte and a whole index
RECURSIVE BadElementFrom(_, _)
BadElementFrom(p, at) ==
    IF at >= Len(p) THEN FALSE
    ELSE IF p[at + 1] # 255 THEN TRUE
    ELSE IF at + 1 >= Len(p) THEN FALSE
    ELSE LET size == IF p[at + 2] < 128 THEN 1 ELSE 2 IN
         IF at + 1 + size > Len(p) THEN FALSE
         ELSE BadElementFrom(p, at + 1 + size)

\* C24: a GRPDEF with a segment element whose type byte is not FF, the
\* elements before it well-formed, fails with "grpdef segment with type
\* other than FF", whatever follows the type byte, bytes or none.
C24_BadGrpdefElement ==
    (First /\ obj[1] = 154 /\ BadElementFrom(Payload, IndexSize(0)))
        => IsErr("grpdef segment with type other than FF")

-----------------------------------------------------------------------------
(* StartAddress: the thread numbers of the fix data byte (objfile.rs 133-171) *)

\* StartAddress::fthread
StartAddress_fthread(self) == bit(self.fix_data, 7)

\* StartAddress::fmethod
StartAddress_fmethod(self) ==
    IF StartAddress_fthread(self)
    THEN EnumOk(None)
    ELSE LET m == FrameMethod_try_from(field(self.fix_data, 4, 3)) IN
         IF m.ok THEN EnumOk(Some(m.val)) ELSE m

\* StartAddress::fthreadno: ((fix_data >> 4) & 7) when the F bit is set
StartAddress_fthreadno(self) ==
    IF StartAddress_fthread(self)
    THEN Some(field(self.fix_data, 4, 3))
    ELSE None

\* StartAddress::tthread
StartAddress_tthread(self) == bit(self.fix_data, 3)

\* StartAddress::tmethod
StartAddress_tmethod(self) ==
    IF StartAddress_tthread(self)
    THEN EnumOk(None)
    ELSE LET m == TargetMethod_try_from(field(self.fix_data, 0, 3)) IN
         IF m.ok THEN EnumOk(Some(m.val)) ELSE m

\* StartAddress::tthreadno: (fix_data & 7) when the T bit is set
StartAddress_tthreadno(self) ==
    IF StartAddress_tthread(self)
    THEN Some(field(self.fix_data, 0, 3))
    ELSE None

\* the frame thread and the target thread the fixup sub-decoder of FIXUPP
\* takes from a fix data byte (objfile.rs 862-866)
FixupFrameThread(fix_data) ==
    IF bit(fix_data, 7) THEN Some((fix_data \div 16) % 4) ELSE None

FixupTargetThread(fix_data) ==
    IF bit(fix_data, 3) THEN Some(fix_data % 4) ELSE None

\* C25: on the start address of a decoded MODEND, fthreadno and tthreadno
\* return the thread numbers the fixup sub-decoder takes from the same fix
\* data byte: (fix_data >> 4) & 3 with bit 0x80 set, fix_data & 3 with bit
\* 0x08 set; they lie in 0..3 and do not change with the bit 0x04.
C25_StartAddressThreads ==
    (First /\ result.kind = "MODEND" /\ result.start_address # None) =>
        LET sa == result.start_address[1] IN
        /\ StartAddress_fthreadno(sa) = FixupFrameThread(sa.fix_data)
        /\ StartAddress_tthreadno(sa) = FixupTargetThread(sa.fix_data)
        /\ \A n \in 0..7 :
              (StartAddress_fthreadno(sa) = Some(n) \/ StartAddress_tthreadno(sa) = Some(n))
                  => n \in 0..3

-----------------------------------------------------------------------------
(* Every access inside the buffer *)

\* most bytes behind the header of a buffer made of arbitrary bytes
MaxBoundsBody == 3

\* NUL, one, the type byte of COMENT (and a first byte of a two-byte
\* index), the class of a library module comment, and FF
BoundsBytes == {0, 1, 136, 163, 255}

\* the type bytes whose decoders read at most two bytes as one number, and
\* one type byte without a decoder
BoundsTypes16 ==
    {66, 128, 136, 138, 140, 144, 150, 152, 154, 156, 160, 178, 180, 182,
     188, 194, 198}

\* the bytes for the decoders that read four bytes as one number
BoundsSmallBytes == {0, 1, 98}

BoundsTypes32 == {139, 145, 153, 157, 161, 176, 179, 183, 195}

\* b is a header whose length field is any of 0 .. Len(body) + 1, then the
\* body: the frame ends inside the body, with it, or behind it
IsBoundsOf(b, t, body) == \E n \in 0..(Len(body) + 1) : b = Header(t, n) \o body

\* the payload made for the decoder of the type byte, cut at every place,
\* under every such length field
IsBoundsOfKind(b, t) ==
    LET body == KindBody(TableKind(t), TableWidth(t)) \o <<0>> IN
    \E k \in 0..Len(body) : IsBoundsOf(b, t, SubSeq(body, 1, k))

IsBoundsBuffer(b) ==
    \/ \E t \in BoundsTypes16, body \in SeqsUpTo(BoundsBytes, MaxBoundsBody) :
          IsBoundsOf(b, t, body)
    \/ \E t \in BoundsTypes32, body \in SeqsUpTo(BoundsSmallBytes, MaxBoundsBody) :
          IsBoundsOf(b, t, body)
    \/ \E t \in DispatchTypes : IsBoundsOfKind(b, t)

InitBounds ==
    /\ IsBoundsBuffer(obj)
    /\ start = 0
    /\ ptr = 0
    /\ next = 0
    /\ result = Fresh
    /\ hdr = 0
    /\ rec = <<>>
    /\ rnext = 0
    /\ rresult = Fresh
    /\ input = 0
    /\ Idle

SpecBounds == InitBounds /\ [][Next]_vars

\* C27: no call of Parser::next panics: every index and slice the framer
\* and the sub-decoders take lies in the buffer and does not end before it
\* starts, frames with the length field 0 included.
C27_NeverPanics == result.kind # "Panic"

\* a COMENT frame with the length field 0 and bytes behind it was read, and
\* the call returned an error
C27_Witness ==
    /\ First
    /\ FrameType(0) = 136
    /\ FrameLen(0) = 0
    /\ Len(obj) > 3
    /\ result.kind = "Err"

-----------------------------------------------------------------------------
(* Calling Parser::next again and again *)

\* most frames in a buffer, most bytes cut from its end
MaxCallFrames == 2
MaxCut == 3

\* the frames of LeadFrames; an LNAMES, a COMENT and a SEGDEF that decode;
\* a SEGDEF whose ACBP byte holds no align; a THEADR whose name runs past
\* its frame; a frame whose length field runs past every buffer
CallFrames ==
    LeadFrames \cup
    {Frame(150, <<1, 65>>), Frame(136, <<0, 158>>), Frame(152, <<96, 0, 0, 1, 1, 1>>),
     Frame(152, <<224>>), <<128, 3, 0, 5, 65, 0>>, <<66, 255, 255, 0>>}

\* Parser::new on up to MaxCallFrames of these frames, up to MaxCut bytes
\* cut from the end
InitCalls ==
    /\ \E fs \in SeqsUpTo(CallFrames, MaxCallFrames), k \in 0..MaxCut :
          LET b == concat(fs) IN
          obj = SubSeq(b, 1, IF k > Len(b) THEN 0 ELSE Len(b) - k)
    /\ start = 0
    /\ ptr = 0
    /\ next = 0
    /\ result = Fresh
    /\ hdr = 0
    /\ rec = <<>>
    /\ rnext = 0
    /\ rresult = Fresh
    /\ input = 0
    /\ Idle

\* the caller goes on calling Parser::next, after errors too
SpecCalls == InitCalls /\ [][Next]_vars /\ WF_vars(ParserNext)

\* C26: a call of Parser::next that does not return Record::None moves the
\* position of the next frame strictly forward and not beyond the end of
\* the buffer, and a caller that goes on calling gets Record::None after
\* finitely many calls.
C26_ReachesNone ==
    /\ [][result'.kind # "None" => (next < next' /\ next' <= Len(obj))]_vars
    /\ <>(result.kind = "None")

\* Record::None came back at the end of a buffer of two frames whose
\* first frame failed its checksum
C26_Witness ==
    /\ Len(obj) >= 8
    /\ result.kind = "None"
    /\ hdr = Len(obj)
    /\ SubSeq(obj, 1, 4) = <<66, 1, 0, 1>>

\* C28: when a call of Parser::next has failed with "record header
\* truncated" or "record body truncated", the following call returns
\* Record::None, and so does every call after a Record::None.
C28_TruncationReportedOnce ==
    [][(\/ IsErr("record header truncated")
        \/ IsErr("record body truncated")
        \/ result.kind = "None")
       => result'.kind = "None"]_vars

\* the frame at offset 0 announces more bytes than the buffer holds, and
\* the call after the failed one returned Record::None
C28_Witness ==
    /\ result.kind = "None"
    /\ hdr = Len(obj)
    /\ HeaderAt(0)
    /\ Len(obj) > 3
    /\ ~FrameAt(0)

-----------------------------------------------------------------------------
(* RecordParser: the cursor after a failed read (record.rs 153-242)        *)

\* most bytes of a record behind its first three
MaxRecordTail == 1

\* bytes of a record: small values, a letter, a continuation byte that is
\* also the lead byte of a two-byte index, and a byte no UTF-8 text holds
RecordBytes == {0, 1, 2, 65, 129, 255}

\* the bytes behind the first three stay below 0x80, so that a 4-byte
\* integer read anywhere in the record stays below 2^31
RecordTailBytes == {0, 1, 65}

\* a RecordParser on a record, its cursor anywhere from 0 to the end
InitRecord ==
    /\ \E head \in SeqsUpTo(RecordBytes, 3) :
       \E tail \in SeqsUpTo(RecordTailBytes, MaxRecordTail) :
          /\ Len(head) = 3 \/ tail = <<>>
          /\ rec = head \o tail
    /\ rnext \in 0..Len(rec)
    /\ rresult = Fresh
    /\ obj = <<>>
    /\ start = 0
    /\ ptr = 0
    /\ next = 0
    /\ result = Fresh
    /\ hdr = 0
    /\ input = 0
    /\ Idle

rec_now == [data |-> rec, next |-> rnext]

\* what the caller keeps of a read: the kind of read, Ok or Err, the value
ReadResult(kind, r) == [kind |-> kind, ok |-> r.ok, val |-> r.val]

\* RecordParser::next_byte
RecordNextByte ==
    /\ LET r == RecordParser_next_byte(rec_now) IN
       /\ rresult' = ReadResult("Byte", r)
       /\ rnext' = r.self.next
    /\ UNCHANGED <<pvars, rec, input, dvars>>

\* RecordParser::next_uint
RecordNextUint ==
    /\ \E is32 \in BOOLEAN :
          LET r == RecordParser_next_uint(rec_now, is32) IN
          /\ rresult' = ReadResult("Uint", r)
          /\ rnext' = r.self.next
    /\ UNCHANGED <<pvars, rec, input, dvars>>

\* RecordParser::next_index
RecordNextIndexAt ==
    /\ LET r == RecordParser_next_index(rec_now) IN
       /\ rresult' = ReadResult("Index", r)
       /\ rnext' = r.self.next
    /\ UNCHANGED <<pvars, rec, input, dvars>>

\* RecordParser::next_str
RecordNextStr ==
    /\ LET r == RecordParser_next_str(rec_now) IN
       /\ rresult' = ReadResult("Str", r)
       /\ rnext' = r.self.next
    /\ UNCHANGED <<pvars, rec, input, dvars>>

\* RecordParser::rest_str
RecordRestStr ==
    /\ LET r == RecordParser_rest_str(rec_now) IN
       /\ rresult' = ReadResult("Rest", r)
       /\ rnext' = r.self.next
    /\ UNCHANGED <<pvars, rec, input, dvars>>

NextRecord ==
    \/ RecordNextByte
    \/ RecordNextUint
    \/ RecordNextIndexAt
    \/ RecordNextStr
    \/ RecordRestStr

SpecRecord == InitRecord /\ [][NextRecord]_vars

\* C29: a read of the RecordParser (next_byte, next_uint, next_index,
\* next_str, rest_str) that returns an error leaves the cursor where it was
\* before the call; a two-byte index whose second byte is missing does not
\* consume its first byte.
C29_FailedReadKeepsCursor ==
    [][~rresult'.ok => rnext' = rnext]_vars

-----------------------------------------------------------------------------
(* The linker: build_segments over the object images (link/main.rs 29-42)  *)

\* most object images handed to the linker, most frames in an image
MaxLinkObjs == 2
MaxLinkFrames == 2

\* LNAMES with the name "A", a MODEND without a start address, and a MODEND
\* whose checksum byte is wrong
LinkFrames ==
    {Frame(150, <<1, 65>>), Frame(138, <<0>>), Header(138, 2) \o <<0, 1>>}

\* an object image: up to MaxLinkFrames frames, one behind the other
LinkImages == {concat(fs) : fs \in SeqsUpTo(LinkFrames, MaxLinkFrames)}

\* build_segments is entered with the list objects.objs; no parser yet
InitLink ==
    /\ objs \in SeqsUpTo(LinkImages, MaxLinkObjs)
    /\ objno = 0
    /\ pc = "for"
    /\ objdump = Objdump_new
    /\ obj = <<>>
    /\ start = 0
    /\ ptr = 0
    /\ next = 0
    /\ result = Fresh
    /\ hdr = 0
    /\ rec = <<>>
    /\ rnext = 0
    /\ rresult = Fresh
    /\ input = 0

\* the head of `for obj in objects.objs.iter()`: the next object and
\* Parser::new on its image, or Ok(()) behind the last one
BuildNextObject ==
    /\ pc = "for"
    /\ IF objno < Len(objs)
       THEN /\ objno' = objno + 1
            /\ obj' = objs[objno + 1]
            /\ start' = 0
            /\ ptr' = 0
            /\ next' = 0
            /\ pc' = "loop"
       ELSE /\ pc' = "done"
            /\ UNCHANGED <<obj, start, ptr, next, objno>>
    /\ UNCHANGED <<objs, objdump, result, hdr, rvars, input>>

\* `parser.next()?` in `loop { match parser.next()? { _ => (), } }`: an
\* error leaves build_segments through the ? operator, a record goes to
\* the match
BuildLoop ==
    /\ pc = "loop"
    /\ LET r == Parser_next(self_now) IN
       /\ hdr' = next
       /\ result' = r.val
       /\ start' = r.self.start
       /\ ptr' = r.self.ptr
       /\ next' = r.self.next
       /\ pc' = IF ~r.ok THEN "failed" ELSE "match"
    /\ UNCHANGED <<obj, objs, objno, objdump, rvars, input>>

\* the match: its one arm `_ => ()` takes every record, Record::None with
\* the others, and the loop has no break, so the next turn follows
BuildMatch ==
    /\ pc = "match"
    /\ pc' = "loop"
    /\ UNCHANGED <<pvars, objs, objno, objdump, rvars, input>>

NextLink == BuildNextObject \/ BuildLoop \/ BuildMatch

\* the linker runs on: a step that can be taken is taken
SpecLink ==
    InitLink /\ [][NextLink]_vars
        /\ WF_vars(BuildNextObject) /\ WF_vars(BuildLoop)
        /\ WF_vars(BuildMatch)

\* every frame of the image decodes: the calls of Parser::next from self on
\* return records up to Record::None and no error
RECURSIVE DecodesFrom(_)
DecodesFrom(self) ==
    \E r \in {Parser_next(self)} :
        /\ r.ok
        /\ r.val.kind = "None" \/ DecodesFrom(r.self)

AllDecode == \A i \in 1..Len(objs) : DecodesFrom(Parser_new(objs[i]))

\* C30: for object images whose frames all decode without error,
\* build_segments leaves the loop of an object once Parser::next returns
\* Record::None and goes on to the next object, so it returns Ok(()) for
\* every finite list of objects.
C30_BuildSegmentsTerminates == AllDecode => <>(pc = "done")

=============================================================================
